---------------------------- MODULE Spec2Model ----------------------------
(***************************************************************************)
(* Data-contract engine: semantic versioning of contracts, schema change   *)
(* detection and record validation.                                        *)
(*                                                                         *)
(* Python values are modelled as follows.                                  *)
(*   None / Optional[x]   a sequence of length 0 (None) or 1 (<<x>>)        *)
(*   str used as text     a TLA+ string                                    *)
(*   version strings      sequences of one-character strings, so that      *)
(*                        split(".") / int() / f"{a}.{b}.{c}" are computed *)
(*   dict (ordered)       a sequence of [name, def] entries                *)
(*   scalar data values   records [t, n, s]: type tag, number, text        *)
(***************************************************************************)
EXTENDS Integers, Sequences, FiniteSets, TLC

VARIABLES
    contracts,   \* table contracts: id -> row, or NoRow
    versions,    \* table contract_versions, in insertion order
    clock,       \* the value datetime.now() returns next
    last,        \* outcome of the last operation (what the caller observes)
    sessions,    \* concurrent create_version calls in flight (SpecConc)
    calc,        \* input/output of calculate_next_version (SpecBump)
    det,         \* input/output of detect_changes (SpecDetect), with a
                 \* record validated under both schemas (SpecCompat)
    val,         \* state of one SchemaValidator.validate call (SpecValidate)
                 \* or of one validate_record call (SpecEngine)
    rt           \* a schema serialized and parsed again (SpecRoundTrip), or a
                 \* document given to parse_yaml (SpecParse)

vars == <<contracts, versions, clock, last, sessions, calc, det, val, rt>>

(***************************************************************************)
(* Bounds of the model.                                                    *)
(***************************************************************************)
MaxPart == 11        \* version components drawn for calculate_next_version
MaxReportLen == 2    \* changes per list in a hand-built ChangeReport
MaxContracts == 1    \* contracts that can be created
MaxVersions == 3     \* rows of contract_versions
MaxSessions == 2     \* concurrent create_version calls
MaxBound == 2        \* largest numeric min/max drawn for a field
MaxItems == 4        \* items of an array value in a record
MaxFields == 11      \* fields declared by a schema given to the validator

(***************************************************************************)
(* Python helpers.                                                         *)
(***************************************************************************)
None == <<>>
Some(x) == <<x>>
IsNone(o) == o = <<>>
Get(o) == o[1]

Min2(a, b) == IF a <= b THEN a ELSE b

(***************************************************************************)
(* Version strings: str.split("."), int(), and the f-string that formats   *)
(* "{major}.{minor}.{patch}".                                              *)
(***************************************************************************)
DigitChars == <<"0", "1", "2", "3", "4", "5", "6", "7", "8", "9">>

DigitValue(c) == (CHOOSE i \in 1..10 : DigitChars[i] = c) - 1

IsDigit(c) == \E i \in 1..10 : DigitChars[i] = c

\* str(n) for a non-negative int
RECURSIVE FormatInt(_)
FormatInt(n) ==
    IF n < 10 THEN <<DigitChars[n + 1]>>
    ELSE FormatInt(n \div 10) \o <<DigitChars[(n % 10) + 1]>>

\* int(s) succeeds on a non-empty run of decimal digits
IntParses(s) == Len(s) > 0 /\ \A i \in 1..Len(s) : IsDigit(s[i])

RECURSIVE ParseInt(_)
ParseInt(s) ==
    IF Len(s) = 0 THEN 0
    ELSE 10 * ParseInt(SubSeq(s, 1, Len(s) - 1)) + DigitValue(s[Len(s)])

\* s.split(".")
RECURSIVE SplitDots(_)
SplitDots(s) ==
    IF \A i \in 1..Len(s) : s[i] # "." THEN <<s>>
    ELSE LET k == CHOOSE i \in 1..Len(s) :
                      s[i] = "." /\ \A j \in 1..(i - 1) : s[j] # "."
         IN  <<SubSeq(s, 1, k - 1)>> \o SplitDots(SubSeq(s, k + 1, Len(s)))

FormatVersion(major, minor, patch) ==
    FormatInt(major) \o <<".">> \o FormatInt(minor) \o <<".">> \o FormatInt(patch)

InitialVersion == FormatVersion(1, 0, 0)

\* the components of a version string, as numbers
VersionParts(version) ==
    LET parts == SplitDots(version)
    IN  [i \in 1..Len(parts) |-> ParseInt(parts[i])]

(***************************************************************************)
(* Scalar values (bounds, enum members, record data).                      *)
(***************************************************************************)
IntV(n) == [t |-> "int", n |-> n, s |-> ""]
FloatV(n) == [t |-> "float", n |-> n, s |-> ""]
StrV(s) == [t |-> "str", n |-> 0, s |-> s]

NoneV == [t |-> "none", n |-> 0, s |-> ""]
BoolV(b) == [t |-> "bool", n |-> IF b THEN 1 ELSE 0, s |-> ""]
ListV(items) == [t |-> "list", items |-> items]
DictV(entries) == [t |-> "dict", entries |-> entries]

NumTags == {"int", "float"}

\* The strings of the model in the order Python's str comparison gives them.
StrOrder ==
    <<"", "2020-01-01", "2021-01-01", "A", "B", "C", "a", "a@b.co", "ab", "b">>

StrRank(s) == CHOOSE i \in 1..Len(StrOrder) : StrOrder[i] = s

\* a < b raises TypeError unless both are numbers or both are strings
Comparable(a, b) ==
    \/ a.t \in NumTags /\ b.t \in NumTags
    \/ a.t = "str" /\ b.t = "str"

PyLt(a, b) ==
    IF a.t = "str" THEN StrRank(a.s) < StrRank(b.s) ELSE a.n < b.n

PyGt(a, b) == PyLt(b, a)

\* a == b, and the key under which a set or an `in` test finds a value
Key(v) ==
    IF v.t \in NumTags \cup {"bool"} THEN [t |-> "num", n |-> v.n, s |-> ""] ELSE v

PyEq(a, b) == Key(a) = Key(b)

PySet(list) == {Key(list[i]) : i \in 1..Len(list)}

PyListEq(a, b) ==
    Len(a) = Len(b) /\ \A i \in 1..Len(a) : PyEq(a[i], b[i])

\* Optional[List] == Optional[List]
OptListEq(a, b) ==
    IF IsNone(a) \/ IsNone(b) THEN IsNone(a) /\ IsNone(b)
    ELSE PyListEq(Get(a), Get(b))

(***************************************************************************)
(* FieldDefinition and ContractSchema (app/models/schemas.py).             *)
(***************************************************************************)
AllowedTypes ==
    {"string", "integer", "float", "boolean", "timestamp", "date", "array", "object"}

AllowedFormats == {"email", "url", "uuid", "ipv4"}

FieldDefinition(type, required, pattern, format, min, max, min_length, max_length, description, enum, items, properties) ==
    [type |-> type, required |-> required, pattern |-> pattern,
     format |-> format, min |-> min, max |-> max, min_length |-> min_length,
     max_length |-> max_length, description |-> description, enum |-> enum,
     items |-> items, properties |-> properties]

\* an ordered dict is a sequence of entries [name, def]
Entry(name, def) == [name |-> name, def |-> def]
Keys(dict) == {dict[i].name : i \in 1..Len(dict)}
Lookup(dict, name) == (CHOOSE i \in 1..Len(dict) : dict[i].name = name)
At(dict, name) == dict[Lookup(dict, name)].def

(***************************************************************************)
(* The YAML texts of the model and what yaml.safe_load returns for each.    *)
(***************************************************************************)
Dict(d) == [kind |-> "dict", d |-> d]
Fields(entries) == [kind |-> "dict", entries |-> entries]

UserId == Entry("user_id", [type |-> "string", required |-> TRUE])
Age == Entry("age", [type |-> "integer", required |-> TRUE,
                     min |-> IntV(0), max |-> IntV(120)])
Nickname == Entry("nickname", [type |-> "string", required |-> FALSE])
AgeByDate == Entry("age", [type |-> "integer", required |-> TRUE,
                           min |-> StrV("2020-01-01")])

DocBase ==
    Dict([contract_version |-> "1.0", domain |-> "test",
          schema |-> Fields(<<UserId, Age>>)])
DocOptional ==
    Dict([contract_version |-> "1.0", domain |-> "test",
          schema |-> Fields(<<UserId, Age, Nickname>>)])
DocBreaking ==
    Dict([contract_version |-> "1.0", domain |-> "test",
          schema |-> Fields(<<UserId>>)])
DocMixedBound ==
    Dict([contract_version |-> "1.0", domain |-> "test",
          schema |-> Fields(<<UserId, AgeByDate>>)])
DocNoSchema == Dict([contract_version |-> "1.0", domain |-> "test"])

YamlDocs ==
    {"base", "optional", "breaking", "mixed_bound", "no_schema"}

safe_load(yaml_content) ==
    CASE yaml_content = "base" -> DocBase
      [] yaml_content = "optional" -> DocOptional
      [] yaml_content = "breaking" -> DocBreaking
      [] yaml_content = "mixed_bound" -> DocMixedBound
      [] yaml_content = "no_schema" -> DocNoSchema

(***************************************************************************)
(* YAMLParser (app/core/yaml_parser.py).  A document is what               *)
(* yaml.safe_load returns: [kind, d] with kind "dict" (d maps the keys     *)
(* present to their values), "scalar" or "syntax_error".  A raw field spec *)
(* is a record holding the keys present, or [scalar |-> TRUE].             *)
(***************************************************************************)
Has(d, k) == k \in DOMAIN d
GetOr(d, k, default) == IF Has(d, k) THEN d[k] ELSE default
Opt(d, k) == IF Has(d, k) THEN Some(d[k]) ELSE None

\* patterns re.compile rejects
InvalidPatterns == {"["}

\* contract_version strings matching ^\d+\.\d+$
ValidContractVersions == {"1.0", "2.0"}

\* validate_field_definition (and the FieldDefinition validators) raise
RECURSIVE FieldRaises(_)
FieldRaises(field_def) ==
    \/ Has(field_def, "scalar")
    \/ ~Has(field_def, "type")
    \/ field_def.type \notin AllowedTypes
    \/ Has(field_def, "pattern") /\ field_def.pattern \in InvalidPatterns
    \/ Has(field_def, "format") /\ field_def.format \notin AllowedFormats
    \/ /\ Has(field_def, "min") /\ Has(field_def, "max")
       /\ \/ ~Comparable(field_def.min, field_def.max)
          \/ PyGt(field_def.min, field_def.max)
    \/ /\ Has(field_def, "min_length") /\ Has(field_def, "max_length")
       /\ field_def.min_length > field_def.max_length
    \/ /\ field_def.type = "array"
       /\ (~Has(field_def, "items") \/ FieldRaises(field_def.items))
    \/ /\ field_def.type = "object"
       /\ \/ ~Has(field_def, "properties")
          \/ \E i \in 1..Len(field_def.properties) :
                 FieldRaises(field_def.properties[i].def)

RECURSIVE validate_field_definition(_)
validate_field_definition(field_def) ==
    FieldDefinition(
        field_def.type,
        GetOr(field_def, "required", TRUE),
        Opt(field_def, "pattern"),
        Opt(field_def, "format"),
        Opt(field_def, "min"),
        Opt(field_def, "max"),
        Opt(field_def, "min_length"),
        Opt(field_def, "max_length"),
        Opt(field_def, "description"),
        Opt(field_def, "enum"),
        IF field_def.type = "array"
            THEN Some(validate_field_definition(field_def.items)) ELSE None,
        IF field_def.type = "object"
            THEN Some([i \in 1..Len(field_def.properties) |->
                          Entry(field_def.properties[i].name,
                                validate_field_definition(
                                    field_def.properties[i].def))])
            ELSE None)

\* the raw schema is [kind, entries]; kind "scalar" is a non-dict value
SchemaRaises(schema_dict) ==
    \/ schema_dict.kind # "dict"
    \/ schema_dict.entries = <<>>
    \/ \E i \in 1..Len(schema_dict.entries) :
           FieldRaises(schema_dict.entries[i].def)

_parse_schema(schema_dict) ==
    [i \in 1..Len(schema_dict.entries) |->
        Entry(schema_dict.entries[i].name,
              validate_field_definition(schema_dict.entries[i].def))]

IsNumber(v) == v.t \in NumTags

KnownRules == {"freshness", "completeness", "uniqueness", "statistics"}

\* validate_quality_rules raises; rules is [kind, d] like a document
QualityRulesRaise(rules) ==
    \/ rules.kind # "dict"
    \/ /\ Has(rules.d, "freshness")
       /\ LET freshness == rules.d.freshness
          IN  \/ freshness.kind # "dict"
              \/ ~Has(freshness.d, "max_latency_hours")
              \/ ~IsNumber(freshness.d.max_latency_hours)
              \/ freshness.d.max_latency_hours.n <= 0
    \/ /\ Has(rules.d, "completeness")
       /\ LET completeness == rules.d.completeness
          IN  \/ completeness.kind # "dict"
              \/ /\ Has(completeness.d, "min_row_count")
                 /\ \/ completeness.d.min_row_count.t # "int"
                    \/ completeness.d.min_row_count.n < 0
              \/ /\ Has(completeness.d, "max_null_percentage")
                 /\ \/ ~IsNumber(completeness.d.max_null_percentage)
                    \/ completeness.d.max_null_percentage.n < 0
                    \/ completeness.d.max_null_percentage.n > 100
    \/ /\ Has(rules.d, "uniqueness")
       /\ LET uniqueness == rules.d.uniqueness
          IN  \/ uniqueness.kind # "dict"
              \/ ~Has(uniqueness.d, "fields")
              \/ uniqueness.d.fields = <<>>
    \/ /\ Has(rules.d, "statistics")
       /\ LET statistics == rules.d.statistics
          IN  \/ statistics.kind # "dict"
              \/ \E k \in DOMAIN statistics.d : statistics.d[k].kind # "dict"

validate_quality_rules(rules) ==
    [k \in (DOMAIN rules.d) \cap KnownRules |-> rules.d[k]]

ContractSchema(contract_version, domain, description, schema, quality_rules) ==
    [contract_version |-> contract_version, domain |-> domain,
     description |-> description, schema |-> schema,
     quality_rules |-> quality_rules]

\* a parse that lets the error of validate_quality_rules escape
DocError_quality_fatal(doc) ==
    IF doc.kind # "dict" THEN "YAMLSyntaxError"
    ELSE IF ~Has(doc.d, "contract_version") \/ ~Has(doc.d, "schema")
         THEN "MissingRequiredKeyError"
    ELSE IF SchemaRaises(doc.d.schema) THEN "InvalidSchemaError"
    ELSE IF Has(doc.d, "quality_rules") /\ QualityRulesRaise(doc.d.quality_rules)
         THEN "InvalidSchemaError"
    ELSE IF doc.d.contract_version \notin ValidContractVersions
         THEN "InvalidSchemaError"
    ELSE ""

\* "" when parse_yaml returns, else the exception class it raises
DocError(doc) ==
    IF doc.kind = "syntax_error" THEN "YAMLSyntaxError"
    ELSE IF doc.kind # "dict" THEN "YAMLSyntaxError"
    ELSE IF ~Has(doc.d, "contract_version") \/ ~Has(doc.d, "schema")
         THEN "MissingRequiredKeyError"
    ELSE IF SchemaRaises(doc.d.schema) THEN "InvalidSchemaError"
    ELSE IF doc.d.contract_version \notin ValidContractVersions
         THEN "InvalidSchemaError"
    ELSE ""

ParseDoc(doc) ==
    LET data == doc.d
        quality_rules ==
            IF Has(data, "quality_rules")
            THEN IF QualityRulesRaise(data.quality_rules) THEN None
                 ELSE Some(validate_quality_rules(data.quality_rules))
            ELSE None
    IN  ContractSchema(data.contract_version,
                       GetOr(data, "domain", "default"),
                       Opt(data, "description"),
                       _parse_schema(data.schema),
                       quality_rules)

ParseError(yaml_content) == DocError(safe_load(yaml_content))

parse_yaml(yaml_content) == ParseDoc(safe_load(yaml_content))

(***************************************************************************)
(* yaml.dump and yaml.safe_load of the data serialize_to_yaml builds.  A   *)
(* YAML text is kept as its node tree: mappings, sequences and scalars     *)
(* written plain or quoted.  A plain scalar is read back as the type its   *)
(* text resolves to, a quoted one as a str.                                *)
(***************************************************************************)
Scalar(style, text) == [kind |-> "scalar", style |-> style, text |-> text]
Mapping(pairs) == [kind |-> "mapping", pairs |-> pairs]
SequenceNode(items) == [kind |-> "sequence", items |-> items]
Pair(key, node) == [key |-> key, node |-> node]

AllDigits(text) ==
    Len(text) > 0 /\ \A i \in 1..Len(text) : IsDigit(SubSeq(text, i, i))

IsFloatText(text) ==
    \E k \in 1..Len(text) :
        /\ SubSeq(text, k, k) = "."
        /\ AllDigits(SubSeq(text, 1, k - 1))
        /\ (k = Len(text) \/ AllDigits(SubSeq(text, k + 1, Len(text))))

IsDateText(text) ==
    /\ Len(text) = 10
    /\ \A i \in 1..10 :
           IF i \in {5, 8} THEN SubSeq(text, i, i) = "-"
           ELSE IsDigit(SubSeq(text, i, i))

\* the implicit tag of a plain scalar
Resolve(text) ==
    IF text \in {"", "~", "null"} THEN "null"
    ELSE IF text \in {"true", "false", "yes", "no", "on", "off"} THEN "bool"
    ELSE IF AllDigits(text) THEN "int"
    ELSE IF IsFloatText(text) THEN "float"
    ELSE IF IsDateText(text) THEN "timestamp"
    ELSE "str"

\* int() of a run of digits held in a string
RECURSIVE TextToInt(_)
TextToInt(text) ==
    IF Len(text) = 0 THEN 0
    ELSE 10 * TextToInt(SubSeq(text, 1, Len(text) - 1))
         + DigitValue(SubSeq(text, Len(text), Len(text)))

\* the digits before the first "."
WholePart(text) ==
    LET k == CHOOSE i \in 1..Len(text) :
                 SubSeq(text, i, i) = "." /\ \A j \in 1..(i - 1) : SubSeq(text, j, j) # "."
    IN  SubSeq(text, 1, k - 1)

represent_str(s) == Scalar(IF Resolve(s) = "str" THEN "plain" ELSE "quoted", s)
represent_int(n) == Scalar("plain", ToString(n))
represent_float(n) == Scalar("plain", ToString(n) \o ".0")
represent_bool(b) == Scalar("plain", IF b THEN "true" ELSE "false")

\* a bound or an enum member
represent_data(v) ==
    CASE v.t = "int" -> represent_int(v.n)
      [] v.t = "float" -> represent_float(v.n)
      [] v.t = "bool" -> represent_bool(v.n = 1)
      [] v.t = "none" -> Scalar("plain", "null")
      [] OTHER -> represent_str(v.s)

DateV(s) == [t |-> "date", n |-> 0, s |-> s]

construct_scalar(node) ==
    IF node.style = "quoted" THEN StrV(node.text)
    ELSE CASE Resolve(node.text) = "int" -> IntV(TextToInt(node.text))
           [] Resolve(node.text) = "float" -> FloatV(TextToInt(WholePart(node.text)))
           [] Resolve(node.text) = "bool" -> BoolV(node.text \in {"true", "yes", "on"})
           [] Resolve(node.text) = "null" -> NoneV
           [] Resolve(node.text) = "timestamp" -> DateV(node.text)
           [] OTHER -> StrV(node.text)

(***************************************************************************)
(* ChangeDetector (app/core/change_detector.py).                           *)
(***************************************************************************)
Change(type, field) == [type |-> type, field |-> field]

has_breaking_changes(report) == Len(report.breaking_changes) > 0

_is_pattern_stricter(old_pattern, new_pattern) ==
    IF IsNone(old_pattern) /\ ~IsNone(new_pattern) THEN TRUE
    ELSE IF ~IsNone(old_pattern) /\ IsNone(new_pattern) THEN FALSE
    ELSE IF old_pattern = new_pattern THEN FALSE
    ELSE IF Get(new_pattern) # "" /\ Get(old_pattern) # ""
         THEN Len(Get(new_pattern)) > Len(Get(old_pattern))
    ELSE FALSE

\* the comparisons of _is_range_narrower / _is_range_wider raise TypeError
\* when a bound is set on both sides with incomparable types
RangeRaises(old_spec, new_spec) ==
    \/ /\ ~IsNone(new_spec.min) /\ ~IsNone(old_spec.min)
       /\ ~Comparable(Get(new_spec.min), Get(old_spec.min))
    \/ /\ ~IsNone(new_spec.max) /\ ~IsNone(old_spec.max)
       /\ ~Comparable(Get(new_spec.max), Get(old_spec.max))

\* bounds compared with >= / <=, so that an unchanged bound counts as tighter
_is_range_narrower_or_equal(old_spec, new_spec) ==
    LET min_tighter ==
            /\ ~IsNone(new_spec.min)
            /\ (IsNone(old_spec.min) \/ ~PyLt(Get(new_spec.min), Get(old_spec.min)))
        max_tighter ==
            /\ ~IsNone(new_spec.max)
            /\ (IsNone(old_spec.max) \/ ~PyGt(Get(new_spec.max), Get(old_spec.max)))
    IN  min_tighter \/ max_tighter

_is_range_narrower(old_spec, new_spec) ==
    LET min_tighter ==
            /\ ~IsNone(new_spec.min)
            /\ (IsNone(old_spec.min) \/ PyGt(Get(new_spec.min), Get(old_spec.min)))
        max_tighter ==
            /\ ~IsNone(new_spec.max)
            /\ (IsNone(old_spec.max) \/ PyLt(Get(new_spec.max), Get(old_spec.max)))
    IN  min_tighter \/ max_tighter

\* a removed bound not counted as wider
_is_range_wider_lowered_only(old_spec, new_spec) ==
    LET min_relaxed ==
            /\ ~IsNone(old_spec.min) /\ ~IsNone(new_spec.min)
            /\ PyLt(Get(new_spec.min), Get(old_spec.min))
        max_relaxed ==
            /\ ~IsNone(old_spec.max) /\ ~IsNone(new_spec.max)
            /\ PyGt(Get(new_spec.max), Get(old_spec.max))
    IN  min_relaxed \/ max_relaxed

_is_range_wider(old_spec, new_spec) ==
    LET min_relaxed ==
            /\ ~IsNone(old_spec.min)
            /\ (IsNone(new_spec.min) \/ PyLt(Get(new_spec.min), Get(old_spec.min)))
        max_relaxed ==
            /\ ~IsNone(old_spec.max)
            /\ (IsNone(new_spec.max) \/ PyGt(Get(new_spec.max), Get(old_spec.max)))
    IN  min_relaxed \/ max_relaxed

If(c, s) == IF c THEN s ELSE <<>>

\* a format change seen only between two formats, not to or from None
_analyze_field_spec_format_both_set(field_name, old_spec, new_spec) ==
    LET typeB == If(old_spec.type # new_spec.type,
                    <<Change("TYPE_CHANGED", field_name)>>)
        reqB == If(~old_spec.required /\ new_spec.required,
                   <<Change("FIELD_MADE_REQUIRED", field_name)>>)
        reqN == If(old_spec.required /\ ~new_spec.required,
                   <<Change("FIELD_MADE_OPTIONAL", field_name)>>)
        patChanged == old_spec.pattern # new_spec.pattern
        stricter == _is_pattern_stricter(old_spec.pattern, new_spec.pattern)
        patB == If(patChanged /\ stricter,
                   <<Change("PATTERN_STRICTER", field_name)>>)
        patN == If(patChanged /\ ~stricter,
                   <<Change("PATTERN_RELAXED", field_name)>>)
        narrower == _is_range_narrower(old_spec, new_spec)
        rngB == If(narrower, <<Change("CONSTRAINT_TIGHTENED", field_name)>>)
        rngN == If(~narrower /\ _is_range_wider(old_spec, new_spec),
                   <<Change("CONSTRAINT_RELAXED", field_name)>>)
        fmtB == If(/\ old_spec.format # new_spec.format
                   /\ ~IsNone(old_spec.format) /\ ~IsNone(new_spec.format),
                   <<Change("FORMAT_CHANGED", field_name)>>)
        enumChanged == ~OptListEq(old_spec.enum, new_spec.enum)
        old_set == IF IsNone(old_spec.enum) THEN {} ELSE PySet(Get(old_spec.enum))
        new_set == PySet(Get(new_spec.enum))
        enumOn == enumChanged /\ ~IsNone(new_spec.enum)
        enumB == If(enumOn /\ new_set \subseteq old_set /\ new_set # old_set,
                    <<Change("ENUM_VALUES_REMOVED", field_name)>>)
        enumN == If(/\ enumOn
                    /\ ~(new_set \subseteq old_set /\ new_set # old_set)
                    /\ old_set \subseteq new_set /\ new_set # old_set,
                    <<Change("ENUM_VALUES_ADDED", field_name)>>)
    IN  [breaking |-> typeB \o reqB \o patB \o rngB \o fmtB \o enumB,
         non_breaking |-> reqN \o patN \o rngN \o enumN]

\* the pair (breaking, non_breaking) of one common field
_analyze_field_spec(field_name, old_spec, new_spec) ==
    LET typeB == If(old_spec.type # new_spec.type,
                    <<Change("TYPE_CHANGED", field_name)>>)
        reqB == If(~old_spec.required /\ new_spec.required,
                   <<Change("FIELD_MADE_REQUIRED", field_name)>>)
        reqN == If(old_spec.required /\ ~new_spec.required,
                   <<Change("FIELD_MADE_OPTIONAL", field_name)>>)
        patChanged == old_spec.pattern # new_spec.pattern
        stricter == _is_pattern_stricter(old_spec.pattern, new_spec.pattern)
        patB == If(patChanged /\ stricter,
                   <<Change("PATTERN_STRICTER", field_name)>>)
        patN == If(patChanged /\ ~stricter,
                   <<Change("PATTERN_RELAXED", field_name)>>)
        narrower == _is_range_narrower(old_spec, new_spec)
        rngB == If(narrower, <<Change("CONSTRAINT_TIGHTENED", field_name)>>)
        rngN == If(~narrower /\ _is_range_wider(old_spec, new_spec),
                   <<Change("CONSTRAINT_RELAXED", field_name)>>)
        fmtB == If(old_spec.format # new_spec.format,
                   <<Change("FORMAT_CHANGED", field_name)>>)
        enumChanged == ~OptListEq(old_spec.enum, new_spec.enum)
        old_set == IF IsNone(old_spec.enum) THEN {} ELSE PySet(Get(old_spec.enum))
        new_set == PySet(Get(new_spec.enum))
        enumOn == enumChanged /\ ~IsNone(new_spec.enum)
        enumB == If(enumOn /\ new_set \subseteq old_set /\ new_set # old_set,
                    <<Change("ENUM_VALUES_REMOVED", field_name)>>)
        enumN == If(/\ enumOn
                    /\ ~(new_set \subseteq old_set /\ new_set # old_set)
                    /\ old_set \subseteq new_set /\ new_set # old_set,
                    <<Change("ENUM_VALUES_ADDED", field_name)>>)
    IN  [breaking |-> typeB \o reqB \o patB \o rngB \o fmtB \o enumB,
         non_breaking |-> reqN \o patN \o rngN \o enumN]

\* the names of `names` in the order `order` lists them (iteration of a set)
RECURSIVE Iterate(_, _)
Iterate(order, names) ==
    IF order = <<>> THEN <<>>
    ELSE If(Head(order) \in names, <<Head(order)>>) \o Iterate(Tail(order), names)

RECURSIVE Concat(_)
Concat(ss) == IF ss = <<>> THEN <<>> ELSE Head(ss) \o Concat(Tail(ss))

\* every added field recorded as breaking, whatever its required flag
_analyze_fields_added_always_breaking(old_fields, new_fields, order) ==
    LET old_field_names == Keys(old_fields)
        new_field_names == Keys(new_fields)
        removed == Iterate(order, old_field_names \ new_field_names)
        added == Iterate(order, new_field_names \ old_field_names)
        common == Iterate(order, old_field_names \cap new_field_names)
        remB == [i \in 1..Len(removed) |-> Change("FIELD_REMOVED", removed[i])]
        addB == [i \in 1..Len(added) |-> Change("REQUIRED_FIELD_ADDED", added[i])]
        spec(i) == _analyze_field_spec(common[i], At(old_fields, common[i]),
                                       At(new_fields, common[i]))
        comB == Concat([i \in 1..Len(common) |-> spec(i).breaking])
        comN == Concat([i \in 1..Len(common) |-> spec(i).non_breaking])
    IN  [breaking |-> remB \o addB \o comB, non_breaking |-> comN]

\* `order` is the order in which the three name sets are iterated
_analyze_fields(old_fields, new_fields, order) ==
    LET old_field_names == Keys(old_fields)
        new_field_names == Keys(new_fields)
        removed == Iterate(order, old_field_names \ new_field_names)
        added == Iterate(order, new_field_names \ old_field_names)
        common == Iterate(order, old_field_names \cap new_field_names)
        remB == [i \in 1..Len(removed) |-> Change("FIELD_REMOVED", removed[i])]
        addB == Concat([i \in 1..Len(added) |->
                    If(At(new_fields, added[i]).required,
                       <<Change("REQUIRED_FIELD_ADDED", added[i])>>)])
        addN == Concat([i \in 1..Len(added) |->
                    If(~At(new_fields, added[i]).required,
                       <<Change("OPTIONAL_FIELD_ADDED", added[i])>>)])
        spec(i) == _analyze_field_spec(common[i], At(old_fields, common[i]),
                                       At(new_fields, common[i]))
        comB == Concat([i \in 1..Len(common) |-> spec(i).breaking])
        comN == Concat([i \in 1..Len(common) |-> spec(i).non_breaking])
    IN  [breaking |-> remB \o addB \o comB, non_breaking |-> addN \o comN]

\* the score without its cap
_calculate_risk_score_uncapped(breaking_changes, non_breaking_changes) ==
    (Len(breaking_changes) * 15) + (Len(non_breaking_changes) * 3)

_calculate_risk_score(breaking_changes, non_breaking_changes) ==
    Min2((Len(breaking_changes) * 15) + (Len(non_breaking_changes) * 3), 100)

\* the MEDIUM threshold mistyped as 60
_get_risk_level_60(score) ==
    IF score <= 20 THEN "LOW"
    ELSE IF score <= 60 THEN "MEDIUM"
    ELSE IF score <= 80 THEN "HIGH"
    ELSE "CRITICAL"

_get_risk_level(score) ==
    IF score <= 20 THEN "LOW"
    ELSE IF score <= 50 THEN "MEDIUM"
    ELSE IF score <= 80 THEN "HIGH"
    ELSE "CRITICAL"

\* the summary sentence, as the parts it is assembled from
_generate_summary(breaking_changes, non_breaking_changes, risk_level) ==
    IF Len(breaking_changes) + Len(non_breaking_changes) = 0
    THEN [text |-> "No changes detected", breaking |-> 0, non_breaking |-> 0,
          risk_level |-> "", bump |-> ""]
    ELSE [text |-> "Detected", breaking |-> Len(breaking_changes),
          non_breaking |-> Len(non_breaking_changes), risk_level |-> risk_level,
          bump |-> IF Len(breaking_changes) > 0 THEN "major"
                   ELSE IF Len(non_breaking_changes) > 0 THEN "minor" ELSE ""]

ChangeReport(breaking_changes, non_breaking_changes, risk_score, risk_level, total_changes, summary) ==
    [breaking_changes |-> breaking_changes,
     non_breaking_changes |-> non_breaking_changes,
     risk_score |-> risk_score, risk_level |-> risk_level,
     total_changes |-> total_changes, summary |-> summary]

\* detect_changes raises TypeError when a common field's bounds are incomparable
DetectRaises(old_schema, new_schema) ==
    \E f \in Keys(old_schema.schema) \cap Keys(new_schema.schema) :
        RangeRaises(At(old_schema.schema, f), At(new_schema.schema, f))

detect_changes(old_schema, new_schema, order) ==
    LET lists == _analyze_fields(old_schema.schema, new_schema.schema, order)
        breaking_changes == lists.breaking
        non_breaking_changes == lists.non_breaking
        total_changes == Len(breaking_changes) + Len(non_breaking_changes)
        risk_score == _calculate_risk_score(breaking_changes, non_breaking_changes)
        risk_level == _get_risk_level(risk_score)
        summary == _generate_summary(breaking_changes, non_breaking_changes,
                                     risk_level)
    IN  ChangeReport(breaking_changes, non_breaking_changes, risk_score,
                     risk_level, total_changes, summary)

(***************************************************************************)
(* serialize_to_yaml (app/core/yaml_parser.py) and the reading of its      *)
(* output.                                                                 *)
(***************************************************************************)
NonEmpty(o) == ~IsNone(o) /\ Get(o) # <<>>
NonEmptyStr(o) == ~IsNone(o) /\ Get(o) # ""

\* the dict of one field: the keys present, as in a raw field spec
RECURSIVE _field_definition_to_dict(_)
_field_definition_to_dict(field_def) ==
    LET keys ==
            {"type", "required"}
            \cup (IF NonEmptyStr(field_def.pattern) THEN {"pattern"} ELSE {})
            \cup (IF NonEmptyStr(field_def.format) THEN {"format"} ELSE {})
            \cup (IF ~IsNone(field_def.min) THEN {"min"} ELSE {})
            \cup (IF ~IsNone(field_def.max) THEN {"max"} ELSE {})
            \cup (IF ~IsNone(field_def.min_length) THEN {"min_length"} ELSE {})
            \cup (IF ~IsNone(field_def.max_length) THEN {"max_length"} ELSE {})
            \cup (IF NonEmptyStr(field_def.description) THEN {"description"} ELSE {})
            \cup (IF NonEmpty(field_def.enum) THEN {"enum"} ELSE {})
            \cup (IF ~IsNone(field_def.items) THEN {"items"} ELSE {})
            \cup (IF NonEmpty(field_def.properties) THEN {"properties"} ELSE {})
    IN  [k \in keys |->
            CASE k = "type" -> field_def.type
              [] k = "required" -> field_def.required
              [] k = "items" -> _field_definition_to_dict(Get(field_def.items))
              [] k = "properties" ->
                    [i \in 1..Len(Get(field_def.properties)) |->
                        Entry(Get(field_def.properties)[i].name,
                              _field_definition_to_dict(
                                  Get(field_def.properties)[i].def))]
              [] OTHER -> Get(field_def[k])]

\* the order in which _field_definition_to_dict inserts its keys
FieldKeyOrder ==
    <<"type", "required", "pattern", "format", "min", "max", "min_length",
      "max_length", "description", "enum", "items", "properties">>

\* yaml.dump of the dict of one field
RECURSIVE DumpField(_)
DumpField(dict) ==
    LET node(k) ==
            CASE k \in {"type", "pattern", "format", "description"} ->
                    represent_str(dict[k])
              [] k = "required" -> represent_bool(dict[k])
              [] k \in {"min", "max"} -> represent_data(dict[k])
              [] k \in {"min_length", "max_length"} -> represent_int(dict[k])
              [] k = "enum" ->
                    SequenceNode([i \in 1..Len(dict[k]) |-> represent_data(dict[k][i])])
              [] k = "items" -> DumpField(dict[k])
              [] k = "properties" ->
                    Mapping([i \in 1..Len(dict[k]) |->
                                Pair(dict[k][i].name, DumpField(dict[k][i].def))])
    IN  Mapping(Concat([i \in 1..Len(FieldKeyOrder) |->
            If(FieldKeyOrder[i] \in DOMAIN dict,
               <<Pair(FieldKeyOrder[i], node(FieldKeyOrder[i]))>>)]))

\* the text serialize_to_yaml returns; quality rules are carried as they are
serialize_to_yaml(contract_schema) ==
    Mapping(
        <<Pair("contract_version", represent_str(contract_schema.contract_version)),
          Pair("domain", represent_str(contract_schema.domain))>>
        \o If(NonEmptyStr(contract_schema.description),
              <<Pair("description", represent_str(Get(contract_schema.description)))>>)
        \o <<Pair("schema",
                  Mapping([i \in 1..Len(contract_schema.schema) |->
                      Pair(contract_schema.schema[i].name,
                           DumpField(_field_definition_to_dict(
                               contract_schema.schema[i].def)))]))>>
        \o If(/\ ~IsNone(contract_schema.quality_rules)
              /\ DOMAIN Get(contract_schema.quality_rules) # {},
              <<Pair("quality_rules",
                     [kind |-> "rules", rules |-> Get(contract_schema.quality_rules)])>>))

NodeAt(pairs, key) == pairs[CHOOSE i \in 1..Len(pairs) : pairs[i].key = key].node

\* a constructed value where the code expects a str, a bool, an int: a value
\* of another type is kept as a marker no check accepts
NativeStr(v) == IF v.t = "str" THEN v.s ELSE "!" \o v.t
NativeBool(v) == v.t = "bool" /\ v.n = 1
NativeInt(v) == v.n

\* yaml.safe_load of the mapping of one field: the raw field spec
RECURSIVE LoadField(_)
LoadField(node) ==
    [k \in {node.pairs[i].key : i \in 1..Len(node.pairs)} |->
        LET n == NodeAt(node.pairs, k)
        IN  CASE k \in {"type", "pattern", "format", "description"} ->
                    NativeStr(construct_scalar(n))
              [] k = "required" -> NativeBool(construct_scalar(n))
              [] k \in {"min", "max"} -> construct_scalar(n)
              [] k \in {"min_length", "max_length"} -> NativeInt(construct_scalar(n))
              [] k = "enum" ->
                    [i \in 1..Len(n.items) |-> construct_scalar(n.items[i])]
              [] k = "items" -> LoadField(n)
              [] k = "properties" ->
                    [i \in 1..Len(n.pairs) |->
                        Entry(n.pairs[i].key, LoadField(n.pairs[i].node))]]

\* yaml.safe_load of a text serialize_to_yaml wrote
LoadDocument(text) ==
    Dict([k \in {text.pairs[i].key : i \in 1..Len(text.pairs)} |->
            LET n == NodeAt(text.pairs, k)
            IN  CASE k = "schema" ->
                        Fields([i \in 1..Len(n.pairs) |->
                                   Entry(n.pairs[i].key, LoadField(n.pairs[i].node))])
                  [] k = "quality_rules" -> Dict(n.rules)
                  [] OTHER -> NativeStr(construct_scalar(n))])

(***************************************************************************)
(* Inputs of the versioning model.                                         *)
(***************************************************************************)
NameList == <<"users", "orders", "events">>
ContractNames == {NameList[i] : i \in 1..MaxContracts}
CreatedBy == {"system"}
Reasons == {"bug"}

ContractIds == 1..MaxContracts
\* ids a caller may name: those that can exist and one that never does
AnyContractId == 1..(MaxContracts + 1)

(***************************************************************************)
(* VersionController (app/core/version_controller.py).                     *)
(***************************************************************************)
\* calculate_next_version raises IndexError / ValueError on a malformed string
CalcRaises(current_version) ==
    LET parts == SplitDots(current_version)
    IN  \/ Len(parts) < 2
        \/ ~IntParses(parts[1])
        \/ ~IntParses(parts[2])
        \/ Len(parts) > 2 /\ ~IntParses(parts[3])

\* a breaking bump that forgets to reset minor and patch
calculate_next_version_keeps_minor(current_version, change_report) ==
    LET parts == SplitDots(current_version)
        major == ParseInt(parts[1])
        minor == ParseInt(parts[2])
        patch == IF Len(parts) > 2 THEN ParseInt(parts[3]) ELSE 0
    IN  IF has_breaking_changes(change_report)
            THEN FormatVersion(major + 1, minor, patch)
        ELSE IF Len(change_report.non_breaking_changes) > 0
            THEN FormatVersion(major, minor + 1, 0)
        ELSE FormatVersion(major, minor, patch + 1)

calculate_next_version(current_version, change_report) ==
    LET parts == SplitDots(current_version)
        major == ParseInt(parts[1])
        minor == ParseInt(parts[2])
        patch == IF Len(parts) > 2 THEN ParseInt(parts[3]) ELSE 0
    IN  IF has_breaking_changes(change_report)
            THEN FormatVersion(major + 1, 0, 0)
        ELSE IF Len(change_report.non_breaking_changes) > 0
            THEN FormatVersion(major, minor + 1, 0)
        ELSE FormatVersion(major, minor, patch + 1)

\* a classification that never answers PATCH
_determine_change_type_no_patch(change_report) ==
    IF has_breaking_changes(change_report) THEN "BREAKING" ELSE "NON_BREAKING"

_determine_change_type(change_report) ==
    IF has_breaking_changes(change_report) THEN "BREAKING"
    ELSE IF Len(change_report.non_breaking_changes) > 0 THEN "NON_BREAKING"
    ELSE "PATCH"

ContractVersion(contract_id, version, yaml_content, change_type, change_summary, created_at, created_by) ==
    [contract_id |-> contract_id, version |-> version,
     yaml_content |-> yaml_content, change_type |-> change_type,
     change_summary |-> change_summary, created_at |-> created_at,
     created_by |-> created_by]

\* a write that overwrites the contract's newest row instead of inserting
db_add_overwriting(table, row) ==
    LET own == {i \in 1..Len(table) : table[i].contract_id = row.contract_id}
    IN  IF own = {} THEN Append(table, row)
        ELSE LET newest == CHOOSE i \in own : \A j \in own : j <= i
             IN  [table EXCEPT ![newest] = row]

\* self.db.add(version) followed by commit: one INSERT into contract_versions
db_add(table, row) == Append(table, row)

\* rows of contract_versions of one contract, in insertion order
VersionsOf(table, contract_id) ==
    SelectSeq(table, LAMBDA v : v.contract_id = contract_id)

\* get_version_by_number: None, or the first matching row
get_version_by_number(table, contract_id, version) ==
    LET hits == SelectSeq(table, LAMBDA v :
                    v.contract_id = contract_id /\ v.version = version)
    IN  IF hits = <<>> THEN None ELSE Some(Head(hits))

\* a table without the unique index
IndexRejects_never(table, contract_id, version) == FALSE

\* the unique index ix_contract_versions_contract_version rejects the insert
IndexRejects(table, contract_id, version) ==
    \E i \in 1..Len(table) :
        table[i].contract_id = contract_id /\ table[i].version = version

\* the orders in which a set of names can be iterated
RECURSIVE Orders(_)
Orders(names) ==
    IF names = {} THEN {<<>>}
    ELSE UNION {{<<n>> \o o : o \in Orders(names \ {n})} : n \in names}

SchemaOrders(old_schema, new_schema) ==
    Orders(Keys(old_schema.schema) \cup Keys(new_schema.schema))

\* parse_yaml and detect_changes on the documents of the model, tabulated
\* (@@ makes TLC build each table once): the schema of each document that
\* parses, and the reports detect_changes can return for each pair, one per
\* iteration order of the name sets
ParsableDocs == {yaml_content \in YamlDocs : ParseError(yaml_content) = ""}

SchemaOf ==
    [yaml_content \in ParsableDocs |-> parse_yaml(yaml_content)] @@ <<>>

DetectablePairs ==
    {pair \in ParsableDocs \X ParsableDocs :
        ~DetectRaises(SchemaOf[pair[1]], SchemaOf[pair[2]])}

ReportsOf ==
    [pair \in DetectablePairs |->
        {detect_changes(SchemaOf[pair[1]], SchemaOf[pair[2]], order) :
            order \in SchemaOrders(SchemaOf[pair[1]], SchemaOf[pair[2]])}] @@ <<>>

\* "".join of the characters of a version string
RECURSIVE Text(_)
Text(chars) == IF chars = <<>> THEN "" ELSE Head(chars) \o Text(Tail(chars))

\* ContractNotFoundError.__init__: the message built from the contract id
ContractNotFoundMessage(contract_id) ==
    "Contract with ID '" \o ToString(contract_id) \o "' not found"

\* a details message that leaves the version number out
VersionNotFound_unnamed(version) == "Version not found"

\* details={"message": f"Version {version} not found"} of compare_versions
VersionNotFound(version) == "Version " \o Text(version) \o " not found"

\* details={"message": f"Target version {target_version} not found"}
TargetVersionNotFound(target_version) ==
    "Target version " \o Text(target_version) \o " not found"

\* what a call leaves with its caller: the exception raised (class, message
\* of a ContractNotFoundError, details) or the value returned
Outcome(op, contract_id, error, details, prev_version, target, report) ==
    [op |-> op, contract_id |-> contract_id, error |-> error,
     message |-> IF error = "ContractNotFoundError"
                 THEN ContractNotFoundMessage(contract_id) ELSE "",
     details |-> details, prev_version |-> prev_version, target |-> target,
     report |-> report, limit |-> 0, result |-> None]

\* the outcome of a query that returns rows
Answer(op, contract_id, version, limit, result) ==
    [Outcome(op, contract_id, "", "", <<>>, version, None) EXCEPT
        !.limit = limit, !.result = result]

NoOutcome == Outcome("none", 0, "", "", <<>>, <<>>, None)

\* a create_version without the try/except around the two parse_yaml calls
CreateVersionError_unwrapped(contract_id, new_yaml) ==
    IF contract_id \notin DOMAIN contracts THEN "ContractNotFoundError"
    ELSE IF contracts[contract_id].yaml_content \notin ParsableDocs
         THEN ParseError(contracts[contract_id].yaml_content)
    ELSE IF new_yaml \notin ParsableDocs THEN ParseError(new_yaml)
    ELSE IF <<contracts[contract_id].yaml_content, new_yaml>> \notin DetectablePairs
         THEN "TypeError"
    ELSE IF CalcRaises(contracts[contract_id].version) THEN "ValueError"
    ELSE ""

\* "" when create_version returns, else the exception it raises
CreateVersionError(contract_id, new_yaml) ==
    IF contract_id \notin DOMAIN contracts THEN "ContractNotFoundError"
    ELSE IF \/ contracts[contract_id].yaml_content \notin ParsableDocs
            \/ new_yaml \notin ParsableDocs
         THEN "InvalidYAMLError"
    ELSE IF <<contracts[contract_id].yaml_content, new_yaml>> \notin DetectablePairs
         THEN "TypeError"
    ELSE IF CalcRaises(contracts[contract_id].version) THEN "ValueError"
    ELSE ""

\* the reports detect_changes can return inside create_version
CreateVersionReports(contract_id, new_yaml) ==
    ReportsOf[<<contracts[contract_id].yaml_content, new_yaml>>]

\* the rows create_version writes in its single commit
CreateVersionWrite(contract_id, new_yaml, created_by, change_report) ==
    LET contract == contracts[contract_id]
        current_version == contract.version
        new_version == calculate_next_version(current_version, change_report)
        change_type == _determine_change_type(change_report)
        version == ContractVersion(contract_id, new_version, new_yaml,
                                   change_type, change_report, clock, created_by)
    IN  [version |-> version,
         contract |-> [contract EXCEPT !.yaml_content = new_yaml,
                                       !.version = new_version,
                                       !.updated_at = clock + 1]]

CreateVersion(contract_id, new_yaml, created_by) ==
    LET error == CreateVersionError(contract_id, new_yaml)
    IN  IF error # ""
        THEN /\ last' = Outcome("create_version", contract_id, error, "",
                                <<>>, <<>>, None)
             /\ UNCHANGED <<contracts, versions, clock>>
        ELSE \E change_report \in CreateVersionReports(contract_id, new_yaml) :
             LET w == CreateVersionWrite(contract_id, new_yaml, created_by,
                                         change_report)
             IN  IF IndexRejects(versions, contract_id, w.version.version)
                 THEN /\ last' = Outcome("create_version", contract_id,
                                         "IntegrityError", "",
                                         contracts[contract_id].version, <<>>,
                                         Some(change_report))
                      /\ UNCHANGED <<contracts, versions, clock>>
                 ELSE /\ Len(versions) < MaxVersions
                      /\ contracts' = [contracts EXCEPT ![contract_id] = w.contract]
                      /\ versions' = db_add(versions, w.version)
                      /\ clock' = clock + 2
                      /\ last' = Outcome("create_version", contract_id, "", "",
                                         contracts[contract_id].version,
                                         w.version.version, Some(change_report))

\* a summary that records the two version numbers the wrong way round
RollbackSummary_swapped(current_version, target_version, reason) ==
    [breaking_changes |-> <<>>, non_breaking_changes |-> <<>>,
     risk_score |-> 0, risk_level |-> "LOW", total_changes |-> 0,
     summary |-> [text |-> "Rolled back", from_version |-> target_version,
                  to_version |-> current_version],
     rollback_info |-> [from_version |-> target_version,
                        to_version |-> current_version, reason |-> reason]]

RollbackSummary(current_version, target_version, reason) ==
    [breaking_changes |-> <<>>, non_breaking_changes |-> <<>>,
     risk_score |-> 0, risk_level |-> "LOW", total_changes |-> 0,
     summary |-> [text |-> "Rolled back", from_version |-> current_version,
                  to_version |-> target_version],
     rollback_info |-> [from_version |-> current_version,
                        to_version |-> target_version, reason |-> reason]]

\* int(parts[0]) of rollback_to_version raises ValueError
RollbackRaises(current_version) == ~IntParses(SplitDots(current_version)[1])

\* a rollback that bumps the minor number
RollbackVersion_minor(current_version) ==
    LET parts == VersionParts(current_version)
    IN  FormatVersion(parts[1], parts[2] + 1, 0)

\* a rollback that keeps the major number
RollbackVersion_same_major(current_version) ==
    FormatVersion(ParseInt(SplitDots(current_version)[1]), 0, 0)

RollbackVersion(current_version) ==
    FormatVersion(ParseInt(SplitDots(current_version)[1]) + 1, 0, 0)

\* a rollback that restores the target's version number with its content
RollbackContract_restores_number(contract, target, new_version, now) ==
    [contract EXCEPT !.yaml_content = target.yaml_content,
                     !.version = target.version,
                     !.updated_at = now]

\* a rollback that bumps the version but leaves the live text alone
RollbackContract_keeps_text(contract, target, new_version, now) ==
    [contract EXCEPT !.version = new_version, !.updated_at = now]

\* the contract row as rollback_to_version leaves it
RollbackContract(contract, target, new_version, now) ==
    [contract EXCEPT !.yaml_content = target.yaml_content,
                     !.version = new_version,
                     !.updated_at = now]

rollback_to_version(contract_id, target_version, created_by, reason) ==
    LET target == get_version_by_number(versions, contract_id, target_version)
        failed(error, details) ==
            /\ last' = Outcome("rollback_to_version", contract_id, error, details,
                               <<>>, target_version, None)
            /\ UNCHANGED <<contracts, versions, clock>>
    IN  IF contract_id \notin DOMAIN contracts
            THEN failed("ContractNotFoundError", "")
        ELSE IF IsNone(target)
            THEN failed("ContractNotFoundError",
                        TargetVersionNotFound(target_version))
        ELSE IF RollbackRaises(contracts[contract_id].version)
            THEN failed("ValueError", "")
        ELSE LET contract == contracts[contract_id]
                 current_version == contract.version
                 new_version == RollbackVersion(current_version)
                 rollback_version ==
                     ContractVersion(contract_id, new_version,
                                     Get(target).yaml_content, "ROLLBACK",
                                     RollbackSummary(current_version,
                                                     target_version, reason),
                                     clock, created_by)
             IN  IF IndexRejects(versions, contract_id, new_version)
                 THEN failed("IntegrityError", "")
                 ELSE /\ Len(versions) < MaxVersions
                      /\ contracts' = [contracts EXCEPT ![contract_id] =
                             RollbackContract(contract, Get(target), new_version,
                                              clock + 1)]
                      /\ versions' = db_add(versions, rollback_version)
                      /\ clock' = clock + 2
                      /\ last' = Outcome("rollback_to_version", contract_id, "",
                                         "", current_version, target_version,
                                         None)

\* get_version_history: the contract's rows, newest created_at first, at most
\* limit of them
RECURSIVE NewestFirst(_)
NewestFirst(rows) ==
    IF rows = <<>> THEN <<>>
    ELSE LET i == CHOOSE i \in 1..Len(rows) :
                      \A j \in 1..Len(rows) :
                          rows[j].created_at <= rows[i].created_at
         IN  <<rows[i]>> \o
             NewestFirst(SubSeq(rows, 1, i - 1) \o SubSeq(rows, i + 1, Len(rows)))

\* a history query that sorts by created_at ascending
get_version_history_oldest_first(table, contract_id, limit) ==
    LET rows == VersionsOf(table, contract_id)
    IN  SubSeq(rows, 1, Min2(limit, Len(rows)))

get_version_history(table, contract_id, limit) ==
    LET rows == NewestFirst(VersionsOf(table, contract_id))
    IN  SubSeq(rows, 1, Min2(limit, Len(rows)))

\* the three read-only calls: each returns or raises, and writes nothing
GetVersionHistory(contract_id, limit) ==
    /\ last' = Answer("get_version_history", contract_id, <<>>, limit,
                      get_version_history(versions, contract_id, limit))
    /\ UNCHANGED <<contracts, versions, clock>>

GetVersionByNumber(contract_id, version) ==
    /\ last' = Answer("get_version_by_number", contract_id, version, 0,
                      get_version_by_number(versions, contract_id, version))
    /\ UNCHANGED <<contracts, versions, clock>>

\* a comparison that diffs the second text against the first
compare_versions_swapped(contract_id, version1, version2) ==
    LET v1 == get_version_by_number(versions, contract_id, version1)
        v2 == get_version_by_number(versions, contract_id, version2)
    IN  /\ ~IsNone(v1) /\ ~IsNone(v2)
        /\ <<Get(v2).yaml_content, Get(v1).yaml_content>> \in DetectablePairs
        /\ \E change_report \in
                  ReportsOf[<<Get(v2).yaml_content, Get(v1).yaml_content>>] :
               last' = Outcome("compare_versions", contract_id, "", "",
                               version1, version2, Some(change_report))
        /\ UNCHANGED <<contracts, versions, clock>>

compare_versions(contract_id, version1, version2) ==
    LET v1 == get_version_by_number(versions, contract_id, version1)
        v2 == get_version_by_number(versions, contract_id, version2)
        raised(error, details) ==
            /\ last' = Outcome("compare_versions", contract_id, error, details,
                               version1, version2, None)
            /\ UNCHANGED <<contracts, versions, clock>>
    IN  IF IsNone(v1)
            THEN raised("ContractNotFoundError", VersionNotFound(version1))
        ELSE IF IsNone(v2)
            THEN raised("ContractNotFoundError", VersionNotFound(version2))
        ELSE IF Get(v1).yaml_content \notin ParsableDocs
            THEN raised(ParseError(Get(v1).yaml_content), "")
        ELSE IF Get(v2).yaml_content \notin ParsableDocs
            THEN raised(ParseError(Get(v2).yaml_content), "")
        ELSE IF <<Get(v1).yaml_content, Get(v2).yaml_content>>
                    \notin DetectablePairs
            THEN raised("TypeError", "")
        ELSE /\ \E change_report \in
                  ReportsOf[<<Get(v1).yaml_content, Get(v2).yaml_content>>] :
                    last' = Outcome("compare_versions", contract_id, "", "",
                                    version1, version2, Some(change_report))
             /\ UNCHANGED <<contracts, versions, clock>>

(***************************************************************************)
(* ContractManager.create_contract (app/core/contract_manager.py).         *)
(***************************************************************************)
InitialSummary ==
    [breaking_changes |-> <<>>, non_breaking_changes |-> <<>>,
     risk_score |-> 0, risk_level |-> "LOW", total_changes |-> 0,
     message |-> "Initial contract creation"]

create_contract(name, domain, yaml_content, description) ==
    LET failed(error) ==
            /\ last' = Outcome("create_contract", 0, error, "", <<>>, <<>>, None)
            /\ UNCHANGED <<contracts, versions, clock>>
        id == Cardinality(DOMAIN contracts) + 1
    IN  IF \E c \in DOMAIN contracts : contracts[c].name = name
            THEN failed("DuplicateContractError")
        ELSE IF yaml_content \notin ParsableDocs
            THEN failed("InvalidYAMLError")
        ELSE /\ id \in ContractIds
             /\ Len(versions) < MaxVersions
             /\ contracts' = [c \in DOMAIN contracts \cup {id} |->
                    IF c = id
                    THEN [name |-> name, version |-> InitialVersion,
                          domain |-> domain, yaml_content |-> yaml_content,
                          description |-> description, is_active |-> TRUE,
                          created_at |-> clock, updated_at |-> clock + 1]
                    ELSE contracts[c]]
             /\ versions' = db_add(versions,
                    ContractVersion(id, InitialVersion, yaml_content, "INITIAL",
                                    InitialSummary, clock + 2, "system"))
             /\ clock' = clock + 3
             /\ last' = Outcome("create_contract", id, "", "", <<>>,
                                InitialVersion, None)

\* update_contract: create_version wrapped so that any exception it raises
\* becomes DatabaseError, then the optional description update
update_contract(contract_id, yaml_content, description) ==
    LET failed(error) ==
            /\ last' = Outcome("update_contract", contract_id, error,
                               IF error = "DatabaseError"
                                   THEN CreateVersionError(contract_id, yaml_content)
                                   ELSE "",
                               <<>>, <<>>, None)
            /\ UNCHANGED <<contracts, versions, clock>>
        rejected ==
            /\ last' = Outcome("update_contract", contract_id, "DatabaseError",
                               "IntegrityError", <<>>, <<>>, None)
            /\ UNCHANGED <<contracts, versions, clock>>
    IN  IF contract_id \notin DOMAIN contracts
            THEN failed("ContractNotFoundError")
        ELSE IF yaml_content \notin ParsableDocs
            THEN failed("InvalidYAMLError")
        ELSE IF CreateVersionError(contract_id, yaml_content) # ""
            THEN failed("DatabaseError")
        ELSE \E change_report \in CreateVersionReports(contract_id, yaml_content) :
             LET w == CreateVersionWrite(contract_id, yaml_content, "system",
                                         change_report)
             IN  IF IndexRejects(versions, contract_id, w.version.version)
                 THEN rejected
                 ELSE /\ Len(versions) < MaxVersions
                      /\ contracts' = [contracts EXCEPT ![contract_id] =
                             IF IsNone(description) THEN w.contract
                             ELSE [w.contract EXCEPT !.description = description]]
                      /\ versions' = db_add(versions, w.version)
                      /\ clock' = clock + 2
                      /\ last' = Outcome("update_contract", contract_id, "", "",
                                         contracts[contract_id].version,
                                         w.version.version, Some(change_report))

(***************************************************************************)
(* Spec: the operations on contracts and their versions, one at a time.    *)
(***************************************************************************)
Idle == <<>>

\* version numbers a caller may ask for: every stored one and one that is not
MissingVersion == FormatVersion(9, 9, 9)
TargetVersions == {versions[i].version : i \in 1..Len(versions)} \cup {MissingVersion}

Init ==
    /\ contracts = <<>>
    /\ versions = <<>>
    /\ clock = 0
    /\ last = NoOutcome
    /\ sessions = Idle
    /\ calc = Idle
    /\ det = Idle
    /\ val = Idle
    /\ rt = Idle

CreateContract ==
    /\ \E name \in ContractNames, yaml_content \in YamlDocs :
           create_contract(name, "test", yaml_content, Some("about"))
    /\ UNCHANGED <<sessions, calc, det, val, rt>>

\* the texts offered as new versions; one that does not parse is offered to
\* create_version in SpecQuery
VersionDocs == YamlDocs \ {"no_schema"}

CreateVersionOp ==
    /\ \E contract_id \in AnyContractId, new_yaml \in VersionDocs,
          created_by \in CreatedBy :
           CreateVersion(contract_id, new_yaml, created_by)
    /\ UNCHANGED <<sessions, calc, det, val, rt>>

UpdateContract ==
    /\ \E contract_id \in AnyContractId, yaml_content \in VersionDocs,
          description \in {Some("about")} :
           update_contract(contract_id, yaml_content, description)
    /\ UNCHANGED <<sessions, calc, det, val, rt>>

Rollback ==
    /\ \E contract_id \in AnyContractId, target_version \in TargetVersions,
          created_by \in CreatedBy, reason \in Reasons :
           rollback_to_version(contract_id, target_version, created_by, reason)
    /\ UNCHANGED <<sessions, calc, det, val, rt>>

Next == CreateContract \/ CreateVersionOp \/ UpdateContract \/ Rollback

Spec == Init /\ [][Next]_vars

(***************************************************************************)
(* SpecBump: calculate_next_version on drawn versions and reports.         *)
(***************************************************************************)
TestChanges(n) == [i \in 1..n |-> Change("TEST", "field")]

HandReports ==
    {ChangeReport(TestChanges(b), TestChanges(n),
                  _calculate_risk_score(TestChanges(b), TestChanges(n)),
                  "LOW", b + n, [text |-> "test"]) :
        b \in 0..MaxReportLen, n \in 0..MaxReportLen}

InitBump ==
    /\ contracts = <<>>
    /\ versions = <<>>
    /\ clock = 0
    /\ last = NoOutcome
    /\ sessions = Idle
    /\ det = Idle
    /\ val = Idle
    /\ rt = Idle
    /\ \E major \in 0..MaxPart, minor \in 0..MaxPart, patch \in 0..MaxPart,
          short \in BOOLEAN, report \in HandReports :
           calc = [step |-> "input",
                   parts |-> <<major, minor, IF short THEN 0 ELSE patch>>,
                   short |-> short,
                   current_version |->
                       IF short THEN FormatInt(major) \o <<".">> \o FormatInt(minor)
                       ELSE FormatVersion(major, minor, patch),
                   report |-> report,
                   result |-> <<>>]

Calculate ==
    /\ calc.step = "input"
    /\ ~CalcRaises(calc.current_version)
    /\ calc' = [calc EXCEPT
                    !.step = "done",
                    !.result = calculate_next_version(calc.current_version,
                                                      calc.report)]
    /\ UNCHANGED <<contracts, versions, clock, last, sessions, det, val, rt>>

NextBump == Calculate

SpecBump == InitBump /\ [][NextBump]_vars

VersionLess(a, b) ==
    LET x == VersionParts(a)
        y == VersionParts(b)
    IN  \/ x[1] < y[1]
        \/ x[1] = y[1] /\ x[2] < y[2]
        \/ x[1] = y[1] /\ x[2] = y[2] /\ x[3] < y[3]

Committed(ops) == last.op \in ops /\ last.error = ""

VersionOps == {"create_version", "update_contract", "rollback_to_version"}

C15_RollbackRecord ==
    Committed({"rollback_to_version"}) =>
        LET row == versions[Len(versions)]
        IN  /\ row.contract_id = last.contract_id
            /\ row.change_type = "ROLLBACK"
            /\ row.change_summary.rollback_info.from_version = last.prev_version
            /\ row.change_summary.rollback_info.to_version = last.target
            /\ row.change_summary.rollback_info.reason \in Reasons
            /\ row.change_summary.breaking_changes = <<>>
            /\ row.change_summary.non_breaking_changes = <<>>
            /\ row.change_summary.total_changes = 0

\* a rollback that restores a text which the change detector reports as a
\* breaking change of the text it replaces
C15_Witness ==
    /\ Committed({"rollback_to_version"})
    /\ LET rows == VersionsOf(versions, last.contract_id)
           pair == <<rows[Len(rows) - 1].yaml_content,
                     rows[Len(rows)].yaml_content>>
       IN  /\ Len(rows) = 3
           /\ rows[3].change_type = "ROLLBACK"
           /\ pair \in DetectablePairs
           /\ \A report \in ReportsOf[pair] : has_breaking_changes(report)

\* C16: the record written by create_version is BREAKING exactly when the
\* major number was bumped, NON_BREAKING exactly when the minor number was
\* bumped and PATCH exactly when only the patch number was bumped, and the
\* bump named in the report summary (major, minor or none) agrees with it.
C16_ChangeTypeMirrorsBump ==
    Committed({"create_version", "update_contract"}) =>
        LET row == versions[Len(versions)]
            old == VersionParts(last.prev_version)
            new == VersionParts(row.version)
            bump == row.change_summary.summary.bump
        IN  /\ row.change_type \in {"BREAKING", "NON_BREAKING", "PATCH"}
            /\ row.change_type = "BREAKING" <=> new = <<old[1] + 1, 0, 0>>
            /\ row.change_type = "NON_BREAKING" <=>
                   new = <<old[1], old[2] + 1, 0>>
            /\ row.change_type = "PATCH" <=>
                   new = <<old[1], old[2], old[3] + 1>>
            /\ bump = "major" <=> row.change_type = "BREAKING"
            /\ bump = "minor" <=> row.change_type = "NON_BREAKING"
            /\ bump = "" <=> row.change_type = "PATCH"

\* a patch bump written after a minor bump: 1.0.0, 1.1.0, 1.1.1
C16_Witness ==
    /\ Committed({"create_version"})
    /\ LET rows == VersionsOf(versions, last.contract_id)
       IN  /\ Len(rows) = 3
           /\ rows[2].change_type = "NON_BREAKING"
           /\ rows[2].version = FormatVersion(1, 1, 0)
           /\ rows[2].change_summary.summary.bump = "minor"
           /\ rows[3].change_type = "PATCH"
           /\ rows[3].version = FormatVersion(1, 1, 1)

\* the version table after the step is the table before it plus one record,
\* which belongs to the contract the call named
AppendsOneRecord ==
    /\ Len(versions') = Len(versions) + 1
    /\ SubSeq(versions', 1, Len(versions)) = versions
    /\ versions'[Len(versions')].contract_id = last'.contract_id

\* C19: contract creation writes exactly one version record (1.0.0, INITIAL);
\* every successful create_version or rollback_to_version appends exactly one
\* record and leaves the existing ones as they were, so after a rollback the
\* target record is still found under its version number with its text.
C19_AppendOnly ==
    [][/\ (last'.op = "create_contract" /\ last'.error = "") =>
              /\ AppendsOneRecord
              /\ Len(VersionsOf(versions', last'.contract_id)) = 1
              /\ versions'[Len(versions')].version = FormatVersion(1, 0, 0)
              /\ versions'[Len(versions')].change_type = "INITIAL"
       /\ (last'.op \in VersionOps /\ last'.error = "") => AppendsOneRecord
       /\ (last'.op = "rollback_to_version" /\ last'.error = "") =>
              LET before == get_version_by_number(versions, last'.contract_id,
                                                  last'.target)
                  after == get_version_by_number(versions', last'.contract_id,
                                                 last'.target)
              IN  /\ ~IsNone(after)
                  /\ after = before
                  /\ Get(after).version = last'.target
                  /\ Get(after).yaml_content =
                         contracts'[last'.contract_id].yaml_content
       /\ Len(versions') >= Len(versions)
       /\ SubSeq(versions', 1, Len(versions)) = versions]_vars

\* a rollback to the first of two records: three records, the first still
\* 1.0.0 INITIAL with the text the rollback restored
C19_Witness ==
    /\ Committed({"rollback_to_version"})
    /\ last.target = FormatVersion(1, 0, 0)
    /\ LET rows == VersionsOf(versions, last.contract_id)
       IN  /\ Len(rows) = 3
           /\ rows[1].version = FormatVersion(1, 0, 0)
           /\ rows[1].change_type = "INITIAL"
           /\ rows[2].yaml_content # rows[1].yaml_content
           /\ rows[3].yaml_content = rows[1].yaml_content
           /\ rows[3].version = FormatVersion(2, 0, 0)

Rejected ==
    \/ last.error = "IntegrityError"
    \/ last.error = "DatabaseError" /\ last.details = "IntegrityError"

\* C4: with the operations executed one at a time, no two version records of
\* a contract carry the same version number, and no operation ever computes a
\* number that is already taken (the unique index never has to reject one).
C4_VersionNumbersUnique ==
    /\ \A i, j \in 1..Len(versions) :
           (i # j /\ versions[i].contract_id = versions[j].contract_id)
               => versions[i].version # versions[j].version
    /\ ~Rejected

\* a rollback committed as the third record of a contract
C4_Witness ==
    /\ Committed({"rollback_to_version"})
    /\ Len(VersionsOf(versions, last.contract_id)) = 3
    /\ versions[Len(versions)].change_type = "ROLLBACK"

\* C6: in every committed state the contract's version and live text are those
\* of its most recently appended version record.
C6_ContractMatchesLatestRecord ==
    \A c \in DOMAIN contracts :
        LET rows == VersionsOf(versions, c)
        IN  /\ rows # <<>>
            /\ rows[Len(rows)].version = contracts[c].version
            /\ rows[Len(rows)].yaml_content = contracts[c].yaml_content

\* an update that changed the text, then a rollback to the first record
C6_Witness ==
    /\ Committed({"rollback_to_version"})
    /\ LET rows == VersionsOf(versions, last.contract_id)
       IN  /\ Len(rows) = 3
           /\ rows[2].change_type = "BREAKING"
           /\ rows[2].yaml_content # rows[1].yaml_content
           /\ rows[3].yaml_content = rows[1].yaml_content

(***************************************************************************)
(* SpecConc: create_version calls running in separate database sessions.   *)
(* Each call reads the contract row (lines 27-47: query, parse, diff, next *)
(* version), then writes in one commit (lines 49-64).  Nothing in the code *)
(* locks the contract row between the two, so the calls interleave.        *)
(***************************************************************************)
Sessions == 1..MaxSessions

IdleSession ==
    [pc |-> "idle", contract_id |-> 0, read_version |-> <<>>,
     contract |-> <<>>, version |-> <<>>, status |-> ""]

InitConc ==
    /\ contracts = <<>>
    /\ versions = <<>>
    /\ clock = 0
    /\ last = NoOutcome
    /\ sessions = [p \in Sessions |-> IdleSession]
    /\ calc = Idle
    /\ det = Idle
    /\ val = Idle
    /\ rt = Idle

\* every contract starts from the same text; the sessions submit any text
ConcCreateContract ==
    /\ \E name \in ContractNames :
           create_contract(name, "test", "base", Some("about"))
    /\ UNCHANGED <<sessions, calc, det, val, rt>>

\* create_version up to, and not including, its writes
SessionRead(p) ==
    /\ sessions[p].pc = "idle"
    /\ \E contract_id \in AnyContractId, new_yaml \in YamlDocs,
          created_by \in CreatedBy :
           LET error == CreateVersionError(contract_id, new_yaml)
           IN  IF error # ""
               THEN /\ sessions' = [sessions EXCEPT ![p] =
                           [IdleSession EXCEPT !.pc = "done",
                                               !.contract_id = contract_id,
                                               !.status = error]]
                    /\ UNCHANGED clock
               ELSE \E change_report \in CreateVersionReports(contract_id, new_yaml) :
                    LET w == CreateVersionWrite(contract_id, new_yaml, created_by,
                                                change_report)
                    IN  /\ sessions' = [sessions EXCEPT ![p] =
                               [pc |-> "read", contract_id |-> contract_id,
                                read_version |-> contracts[contract_id].version,
                                contract |-> w.contract, version |-> w.version,
                                status |-> ""]]
                        /\ clock' = clock + 2
    /\ UNCHANGED <<contracts, versions, last, calc, det, val, rt>>

\* the commit: UPDATE of the contract row and INSERT of the version row
SessionCommit(p) ==
    /\ sessions[p].pc = "read"
    /\ LET s == sessions[p]
       IN  IF IndexRejects(versions, s.contract_id, s.version.version)
           THEN /\ sessions' = [sessions EXCEPT ![p].pc = "done",
                                                ![p].status = "IntegrityError"]
                /\ UNCHANGED <<contracts, versions>>
           ELSE /\ Len(versions) < MaxVersions
                /\ contracts' = [contracts EXCEPT ![s.contract_id] =
                       [@ EXCEPT !.yaml_content = s.contract.yaml_content,
                                 !.version = s.contract.version,
                                 !.updated_at = s.contract.updated_at]]
                /\ versions' = db_add(versions, s.version)
                /\ sessions' = [sessions EXCEPT ![p].pc = "done",
                                                ![p].status = "committed"]
    /\ UNCHANGED <<clock, last, calc, det, val, rt>>

NextConc ==
    \/ ConcCreateContract
    \/ \E p \in Sessions : SessionRead(p)
    \/ \E p \in Sessions : SessionCommit(p)

SpecConc == InitConc /\ [][NextConc]_vars

\* two calls that read the same version of the same contract and computed the
\* same next version
SameNextVersion(p, q) ==
    /\ p # q
    /\ sessions[p].pc \in {"read", "done"} /\ sessions[p].version # <<>>
    /\ sessions[q].pc \in {"read", "done"} /\ sessions[q].version # <<>>
    /\ sessions[p].contract_id = sessions[q].contract_id
    /\ sessions[p].read_version = sessions[q].read_version
    /\ sessions[p].version.version = sessions[q].version.version

\* C5: two interleaved create_version calls that both read the contract's
\* version before either writes can compute the same next version; the
\* (contract_id, version) pair then stays unique only because the storage
\* rejects the second write.
C5_SecondWriteRejected ==
    /\ \A p, q \in Sessions :
           SameNextVersion(p, q) =>
               ~(sessions[p].status = "committed" /\ sessions[q].status = "committed")
    /\ \A i, j \in 1..Len(versions) :
           (i # j /\ versions[i].contract_id = versions[j].contract_id)
               => versions[i].version # versions[j].version

\* both calls computed the same version; one committed and the index rejected
\* the other
C5_Witness ==
    \E p, q \in Sessions :
        /\ SameNextVersion(p, q)
        /\ sessions[p].status = "committed"
        /\ sessions[q].status = "IntegrityError"

(***************************************************************************)
(* SpecDetect: detect_changes on pairs of parsed schemas.                  *)
(*                                                                         *)
(* Field "a" is drawn from a palette of raw field specs: a base spec, the  *)
(* base with one attribute (or the min/max pair) varied, a spec with every *)
(* constraint set and one with none; field "b" is absent, required or      *)
(* optional.  Every schema is what the parser returns for the raw specs.   *)
(***************************************************************************)
With(spec, key, value) ==
    [k \in DOMAIN spec \cup {key} |-> IF k = key THEN value ELSE spec[k]]

BaseSpec == [type |-> "string", required |-> TRUE]

Bounds == {IntV(n) : n \in 0..MaxBound}

RangeSpecs ==
    {With(BaseSpec, "min", lo) : lo \in Bounds \cup {StrV("2020-01-01")}}
    \cup {With(BaseSpec, "max", hi) : hi \in Bounds}
    \cup {With(With(BaseSpec, "min", lo), "max", hi) : lo \in Bounds, hi \in Bounds}

EnumLists ==
    {<<StrV("A")>>, <<StrV("A"), StrV("B")>>, <<StrV("B"), StrV("C")>>,
     <<StrV("B"), StrV("A")>>}

StrictSpec ==
    [type |-> "integer", required |-> TRUE, pattern |-> "ab",
     format |-> "email", min |-> IntV(1), max |-> IntV(1),
     enum |-> <<StrV("A")>>]

LooseSpec ==
    [type |-> "string", required |-> FALSE, pattern |-> "a",
     format |-> "url", min |-> IntV(0), max |-> IntV(MaxBound),
     enum |-> <<StrV("A"), StrV("B")>>]

FieldPalette ==
    {BaseSpec, StrictSpec, LooseSpec,
     With(BaseSpec, "type", "integer"), With(BaseSpec, "required", FALSE)}
    \cup {With(BaseSpec, "pattern", pat) : pat \in {"", "a", "b", "ab"}}
    \cup {With(BaseSpec, "format", fmt) : fmt \in {"email", "url"}}
    \cup RangeSpecs
    \cup {With(BaseSpec, "enum", enum) : enum \in EnumLists}

SecondField ==
    {[type |-> "string", required |-> TRUE],
     [type |-> "string", required |-> FALSE]}

\* the raw schemas drawn: "a" and "b" in either key order, or one of them
DetectRawSchemas ==
    {<<Entry("a", a)>> : a \in FieldPalette}
    \cup {<<Entry("b", b)>> : b \in SecondField}
    \cup {<<Entry("a", a), Entry("b", b)>> : a \in FieldPalette, b \in SecondField}

DetectSchemas ==
    {ParseDoc(Dict([contract_version |-> "1.0", schema |-> Fields(raw)])) :
        raw \in {r \in DetectRawSchemas : ~SchemaRaises(Fields(r))}}

InitDetect ==
    /\ contracts = <<>>
    /\ versions = <<>>
    /\ clock = 0
    /\ last = NoOutcome
    /\ sessions = Idle
    /\ calc = Idle
    /\ val = Idle
    /\ rt = Idle
    /\ \E old_schema \in DetectSchemas, new_schema \in DetectSchemas :
           det = [step |-> "input", old_schema |-> old_schema,
                  new_schema |-> new_schema, report |-> None]

DetectChanges ==
    /\ det.step = "input"
    /\ IF DetectRaises(det.old_schema, det.new_schema)
       THEN det' = [det EXCEPT !.step = "TypeError"]
       ELSE \E order \in SchemaOrders(det.old_schema, det.new_schema) :
                det' = [det EXCEPT
                            !.step = "done",
                            !.report = Some(detect_changes(det.old_schema,
                                                           det.new_schema, order))]
    /\ UNCHANGED <<contracts, versions, clock, last, sessions, calc, val, rt>>

NextDetect == DetectChanges

SpecDetect == InitDetect /\ [][NextDetect]_vars

Report == Get(det.report)

\* C8: detect_changes(S, S) yields no breaking and no non-breaking change,
\* total_changes 0, risk_score 0 and risk_level LOW.
C8_SameSchemaNoChanges ==
    (det.step # "input" /\ det.old_schema = det.new_schema) =>
        /\ det.step = "done"
        /\ Report.breaking_changes = <<>>
        /\ Report.non_breaking_changes = <<>>
        /\ Report.total_changes = 0
        /\ Report.risk_score = 0
        /\ Report.risk_level = "LOW"

\* a schema compared with itself whose field carries every constraint
C8_Witness ==
    /\ det.step = "done"
    /\ det.old_schema = det.new_schema
    /\ Len(det.old_schema.schema) = 2
    /\ LET a == At(det.old_schema.schema, "a")
       IN  /\ ~IsNone(a.pattern) /\ ~IsNone(a.format) /\ ~IsNone(a.enum)
           /\ ~IsNone(a.min) /\ ~IsNone(a.max)

\* C9: risk_score = min(100, 15 * breaking + 3 * non-breaking), within 0..100.
C9_RiskScore ==
    det.step = "done" =>
        LET raw == 15 * Len(Report.breaking_changes)
                       + 3 * Len(Report.non_breaking_changes)
        IN  /\ Report.risk_score = (IF raw > 100 THEN 100 ELSE raw)
            /\ Report.risk_score \in 0..100

\* seven breaking changes: 105 capped to 100
C9_Witness ==
    /\ det.step = "done"
    /\ Len(Report.breaking_changes) = 7
    /\ Report.risk_score = 100

EntriesFor(changes, field) ==
    Cardinality({i \in 1..Len(changes) : changes[i].field = field})

EntriesOf(changes, type, field) ==
    Cardinality({i \in 1..Len(changes) : changes[i] = Change(type, field)})

C12_EnumChange ==
    (det.step = "done"
        /\ "a" \in Keys(det.old_schema.schema) \cap Keys(det.new_schema.schema)) =>
        LET old_enum == At(det.old_schema.schema, "a").enum
            new_enum == At(det.new_schema.schema, "a").enum
            both == ~IsNone(old_enum) /\ ~IsNone(new_enum)
            old_set == PySet(Get(old_enum))
            new_set == PySet(Get(new_enum))
            removed == EntriesOf(Report.breaking_changes, "ENUM_VALUES_REMOVED", "a")
            added == EntriesOf(Report.non_breaking_changes, "ENUM_VALUES_ADDED", "a")
        IN  IF both /\ new_set # old_set /\ new_set \subseteq old_set
                THEN removed = 1 /\ added = 0
            ELSE IF both /\ new_set # old_set /\ old_set \subseteq new_set
                THEN removed = 0 /\ added = 1
            ELSE removed = 0 /\ added = 0

(***************************************************************************)
(* SchemaValidator (app/core/schema_validator.py).  A ValidationError is   *)
(* kept as its field path and error_type.  A call returns [errors, raised]:*)
(* raised is TRUE when the call ends with an uncaught TypeError.           *)
(***************************************************************************)
ValidationError(field, error_type) == [field |-> field, error_type |-> error_type]

Ok(errors) == [errors |-> errors, raised |-> FALSE]
Raise == [errors |-> <<>>, raised |-> TRUE]

\* the statements r2 run after the statements r1, both appending to errors
Then(r1, r2) ==
    IF r1.raised THEN Raise
    ELSE IF r2.raised THEN Raise
    ELSE Ok(r1.errors \o r2.errors)

_compile_patterns(schema) ==
    {schema[i].name : i \in {k \in 1..Len(schema) :
        ~IsNone(schema[k].def.pattern) /\ Get(schema[k].def.pattern) # ""}}

SchemaValidator(contract_schema) ==
    [schema |-> contract_schema.schema,
     compiled_patterns |-> _compile_patterns(contract_schema.schema)]

TypeChecks(expected_type) ==
    CASE expected_type = "string" -> {"str"}
      [] expected_type = "integer" -> {"int"}
      [] expected_type = "float" -> {"int", "float"}
      [] expected_type = "boolean" -> {"bool"}
      [] expected_type = "timestamp" -> {"str", "int", "float", "bool"}
      [] expected_type = "date" -> {"str"}
      [] expected_type = "array" -> {"list"}
      [] expected_type = "object" -> {"dict"}
      [] OTHER -> {}

_validate_type(field_name, value, expected_type) ==
    IF value.t \notin TypeChecks(expected_type)
    THEN Some(ValidationError(field_name, "TYPE_MISMATCH"))
    ELSE None

\* re.match of a pattern without metacharacters: the value starts with it
ReMatch(pattern, value) ==
    Len(value) >= Len(pattern) /\ SubSeq(value, 1, Len(pattern)) = pattern

\* the strings of the model that match the regex of each format
FormatMatches(format_type) ==
    CASE format_type = "email" -> {"a@b.co"}
      [] OTHER -> {}

_validate_format(value, format_type) ==
    IF format_type \notin AllowedFormats THEN TRUE
    ELSE value \in FormatMatches(format_type)

\* value not in enum
NotIn(value, enum) == Key(value) \notin PySet(enum)

EnumMismatch(field_name, value, field_def) ==
    If(~IsNone(field_def.enum) /\ Get(field_def.enum) # <<>>
           /\ NotIn(value, Get(field_def.enum)),
       <<ValidationError(field_name, "ENUM_MISMATCH")>>)

_validate_string(validator, field_name, value, field_def) ==
    Ok(If(/\ ~IsNone(field_def.pattern) /\ Get(field_def.pattern) # ""
          /\ field_name \in validator.compiled_patterns
          /\ ~ReMatch(Get(At(validator.schema, field_name).pattern), value.s),
          <<ValidationError(field_name, "PATTERN_MISMATCH")>>)
       \o If(/\ ~IsNone(field_def.format) /\ Get(field_def.format) # ""
             /\ ~_validate_format(value.s, Get(field_def.format)),
             <<ValidationError(field_name, "FORMAT_MISMATCH")>>)
       \o If(/\ ~IsNone(field_def.min_length)
             /\ Len(value.s) < Get(field_def.min_length),
             <<ValidationError(field_name, "LENGTH_TOO_SHORT")>>)
       \o If(/\ ~IsNone(field_def.max_length)
             /\ Len(value.s) > Get(field_def.max_length),
             <<ValidationError(field_name, "LENGTH_TOO_LONG")>>)
       \o EnumMismatch(field_name, value, field_def))

\* one bound check of _validate_number: a str bound raises TypeError
NumberBound(field_name, value, bound, below, error_type) ==
    IF IsNone(bound) THEN Ok(<<>>)
    ELSE IF ~Comparable(value, Get(bound)) THEN Raise
    ELSE IF below /\ PyLt(value, Get(bound)) THEN Ok(<<ValidationError(field_name, error_type)>>)
    ELSE IF ~below /\ PyGt(value, Get(bound)) THEN Ok(<<ValidationError(field_name, error_type)>>)
    ELSE Ok(<<>>)

_validate_number(field_name, value, field_def) ==
    Then(Then(NumberBound(field_name, value, field_def.min, TRUE, "VALUE_TOO_SMALL"),
              NumberBound(field_name, value, field_def.max, FALSE, "VALUE_TOO_LARGE")),
         Ok(EnumMismatch(field_name, value, field_def)))

\* the strings datetime.fromisoformat parses, as the year they denote
IsoStrings == {"2020-01-01", "2021-01-01"}

IsoTime(s) == IF s = "2020-01-01" THEN 2020 ELSE 2021

\* datetime.fromtimestamp of the small numbers of the model
Epoch == 1970

\* str(bound)
BoundStr(bound) == IF bound.t = "str" THEN bound.s ELSE ToString(bound.n)

\* `if field_def.min:` -- None, 0 and "" are falsy
Truthy(bound) ==
    /\ ~IsNone(bound)
    /\ IF Get(bound).t = "str" THEN Get(bound).s # "" ELSE Get(bound).n # 0

_validate_timestamp(field_name, value, field_def) ==
    LET invalid == <<ValidationError(field_name, "INVALID_TIMESTAMP")>>
        parses == value.t # "str" \/ value.s \in IsoStrings
        dt == IF value.t = "str" THEN IsoTime(value.s) ELSE Epoch
        BoundParses(bound) == BoundStr(Get(bound)) \in IsoStrings
        BoundTime(bound) == IsoTime(BoundStr(Get(bound)))
    IN  IF ~parses THEN Ok(invalid)
        ELSE IF Truthy(field_def.min) /\ ~BoundParses(field_def.min) THEN Ok(invalid)
        ELSE LET too_old ==
                     If(Truthy(field_def.min) /\ dt < BoundTime(field_def.min),
                        <<ValidationError(field_name, "TIMESTAMP_TOO_OLD")>>)
             IN  IF Truthy(field_def.max) /\ ~BoundParses(field_def.max)
                 THEN Ok(too_old \o invalid)
                 ELSE Ok(too_old
                         \o If(Truthy(field_def.max) /\ dt > BoundTime(field_def.max),
                               <<ValidationError(field_name, "TIMESTAMP_TOO_RECENT")>>))

RECURSIVE _validate_object(_, _, _, _)
RECURSIVE _validate_nested_field(_, _, _, _)
RECURSIVE ObjectLoop(_, _, _, _, _, _)
RECURSIVE ArrayLoop(_, _, _, _, _, _)

\* one length check of _validate_array: len(value) against a str bound raises
ArrayBound(field_name, value, bound, below, error_type) ==
    IF IsNone(bound) THEN Ok(<<>>)
    ELSE IF Get(bound).t \notin NumTags THEN Raise
    ELSE IF below /\ Len(value.items) < Get(bound).n
         THEN Ok(<<ValidationError(field_name, error_type)>>)
    ELSE IF ~below /\ Len(value.items) > Get(bound).n
         THEN Ok(<<ValidationError(field_name, error_type)>>)
    ELSE Ok(<<>>)

\* the loop over enumerate(value[:10]), at index idx with errors so far
ArrayLoop(validator, field_name, value, field_def, idx, errors) ==
    IF idx >= Min2(Len(value.items), 10) THEN Ok(errors)
    ELSE LET item_errors ==
                 _validate_nested_field(
                     validator, field_name \o "[" \o ToString(idx) \o "]",
                     value.items[idx + 1], Get(field_def.items))
         IN  IF item_errors.raised THEN Raise
             ELSE IF Len(errors \o item_errors.errors) >= 10
                  THEN Ok(errors \o item_errors.errors)
             ELSE ArrayLoop(validator, field_name, value, field_def, idx + 1,
                            errors \o item_errors.errors)

_validate_array(validator, field_name, value, field_def) ==
    LET bounds ==
            Then(ArrayBound(field_name, value, field_def.min, TRUE, "ARRAY_TOO_SHORT"),
                 ArrayBound(field_name, value, field_def.max, FALSE, "ARRAY_TOO_LONG"))
    IN  IF bounds.raised THEN Raise
        ELSE IF IsNone(field_def.items) THEN bounds
        ELSE ArrayLoop(validator, field_name, value, field_def, 0, bounds.errors)

\* the loop over field_def.properties.items(), at entry i with errors so far
ObjectLoop(validator, field_name, value, properties, i, errors) ==
    IF i > Len(properties) THEN Ok(errors)
    ELSE LET prop_name == properties[i].name
             prop_def == properties[i].def
             prop_path == field_name \o "." \o prop_name
         IN  IF prop_def.required /\ prop_name \notin Keys(value.entries)
             THEN ObjectLoop(validator, field_name, value, properties, i + 1,
                      errors \o <<ValidationError(prop_path, "REQUIRED_FIELD_MISSING")>>)
             ELSE LET prop_errors ==
                          IF prop_name \in Keys(value.entries)
                          THEN _validate_nested_field(validator, prop_path,
                                   At(value.entries, prop_name), prop_def)
                          ELSE Ok(<<>>)
                  IN  IF prop_errors.raised THEN Raise
                      ELSE IF Len(errors \o prop_errors.errors) >= 10
                           THEN Ok(errors \o prop_errors.errors)
                      ELSE ObjectLoop(validator, field_name, value, properties,
                                      i + 1, errors \o prop_errors.errors)

_validate_object(validator, field_name, value, field_def) ==
    IF IsNone(field_def.properties) \/ Get(field_def.properties) = <<>>
    THEN Ok(<<>>)
    ELSE ObjectLoop(validator, field_name, value, Get(field_def.properties), 1, <<>>)

\* a nested check that goes on to the enum after a failed type check
_validate_nested_field_checks_anyway(validator, field_path, value, field_def) ==
    LET type_error == _validate_type(field_path, value, field_def.type)
    IN  IF ~IsNone(type_error)
        THEN Ok(<<Get(type_error)>> \o EnumMismatch(field_path, value, field_def))
        ELSE IF field_def.type = "string"
             THEN _validate_string(validator, field_path, value, field_def)
        ELSE IF field_def.type \in {"integer", "float"}
             THEN _validate_number(field_path, value, field_def)
        ELSE Ok(<<>>)

_validate_nested_field(validator, field_path, value, field_def) ==
    LET type_error == _validate_type(field_path, value, field_def.type)
    IN  IF ~IsNone(type_error) THEN Ok(<<Get(type_error)>>)
        ELSE IF field_def.type = "string"
             THEN _validate_string(validator, field_path, value, field_def)
        ELSE IF field_def.type \in {"integer", "float"}
             THEN _validate_number(field_path, value, field_def)
        ELSE IF /\ field_def.type = "object"
                /\ ~IsNone(field_def.properties)
                /\ Get(field_def.properties) # <<>>
             THEN _validate_object(validator, field_path, value, field_def)
        ELSE Ok(<<>>)

\* the type-specific checks of one top-level field (lines 54-63)
TypeSpecific(validator, field_name, value, field_def) ==
    IF field_def.type = "string"
        THEN _validate_string(validator, field_name, value, field_def)
    ELSE IF field_def.type \in {"integer", "float"}
        THEN _validate_number(field_name, value, field_def)
    ELSE IF field_def.type = "timestamp"
        THEN _validate_timestamp(field_name, value, field_def)
    ELSE IF field_def.type = "array"
        THEN _validate_array(validator, field_name, value, field_def)
    ELSE IF field_def.type = "object"
        THEN _validate_object(validator, field_name, value, field_def)
    ELSE Ok(<<>>)

\* the loop over self.schema.items(), at entry i with errors so far; data is
\* the record, an ordered dict of values
RECURSIVE ValidateLoop(_, _, _, _)
ValidateLoop(validator, data, i, errors) ==
    IF i > Len(validator.schema) THEN Ok(errors)
    ELSE LET field_name == validator.schema[i].name
             field_def == validator.schema[i].def
         IN  IF field_def.required /\ field_name \notin Keys(data)
             THEN ValidateLoop(validator, data, i + 1,
                      errors \o <<ValidationError(field_name, "REQUIRED_FIELD_MISSING")>>)
             ELSE IF field_name \notin Keys(data)
             THEN ValidateLoop(validator, data, i + 1, errors)
             ELSE LET value == At(data, field_name)
                      type_error == _validate_type(field_name, value, field_def.type)
                      checks == TypeSpecific(validator, field_name, value, field_def)
                  IN  IF value = NoneV /\ ~field_def.required
                      THEN ValidateLoop(validator, data, i + 1, errors)
                      ELSE IF ~IsNone(type_error)
                      THEN ValidateLoop(validator, data, i + 1,
                                        errors \o <<Get(type_error)>>)
                      ELSE IF checks.raised THEN Raise
                      ELSE IF Len(errors \o checks.errors) >= 10
                      THEN Ok(errors \o checks.errors)
                      ELSE ValidateLoop(validator, data, i + 1,
                                        errors \o checks.errors)

\* a validation that also reports the keys of the record nobody declared
validate_data_keys(validator, data) ==
    LET result == ValidateLoop(validator, data, 1, <<>>)
    IN  IF result.raised THEN Raise
        ELSE Ok(result.errors
                \o Concat([i \in 1..Len(data) |->
                              If(data[i].name \notin Keys(validator.schema),
                                 <<ValidationError(data[i].name, "UNKNOWN_FIELD")>>)]
                          @@ <<>>))

validate(validator, data) == ValidateLoop(validator, data, 1, <<>>)

(***************************************************************************)
(* SpecValidate: SchemaValidator.validate on a schema and a record.        *)
(*                                                                         *)
(* A schema declares fields f1..fn.  f1 is drawn from every field kind and *)
(* its value from every value of the model; f2..fn share one kind and one  *)
(* value (or are all missing from the record).                             *)
(***************************************************************************)
ConstrainedString ==
    [type |-> "string", required |-> TRUE, pattern |-> "a", format |-> "email",
     min_length |-> 2, max_length |-> 6, enum |-> <<StrV("a@b.co")>>]

OptionalString == [type |-> "string", required |-> FALSE]

TagsSpec ==
    [type |-> "array", required |-> TRUE, min |-> IntV(1), max |-> IntV(2),
     items |-> ConstrainedString]

FirstKinds ==
    {BaseSpec, OptionalString, ConstrainedString, TagsSpec,
     [type |-> "integer", required |-> TRUE, min |-> IntV(1),
      max |-> IntV(MaxBound), enum |-> <<IntV(1)>>],
     [type |-> "integer", required |-> TRUE, min |-> StrV("2020-01-01")],
     [type |-> "timestamp", required |-> FALSE, min |-> StrV("2021-01-01")],
     [type |-> "boolean", required |-> FALSE],
     [type |-> "array", required |-> TRUE, max |-> StrV("2020-01-01"),
      items |-> BaseSpec],
     [type |-> "object", required |-> TRUE,
      properties |-> <<Entry("name", ConstrainedString),
                       Entry("nick", OptionalString)>>]}

RestKinds == {BaseSpec, OptionalString, TagsSpec}

\* a list of n strings that fail every check of ConstrainedString
BadItems(n) == ListV([i \in 1..n |-> StrV("b")])

FirstValues ==
    {NoneV, StrV("a@b.co"), StrV("b"), StrV("2020-01-01"), IntV(0), IntV(1),
     BoolV(TRUE), ListV(<<StrV("a@b.co")>>), DictV(<<>>),
     DictV(<<Entry("name", StrV("b")), Entry("nick", NoneV)>>),
     DictV(<<Entry("name", StrV("a@b.co"))>>),
     DictV(<<Entry("name", IntV(0))>>)}
    \cup {BadItems(n) : n \in 0..MaxItems}

RestValues == {StrV("b"), IntV(1), BadItems(MaxItems - 1)}

FieldName(i) == "f" \o ToString(i)

\* the raw schema: f1 of kind first, f2..fn of kind rest
RawSchema(n, first, rest) ==
    [i \in 1..n |-> Entry(FieldName(i), IF i = 1 THEN first ELSE rest)]

\* the record: f1 |-> first and f2..fn |-> rest, each left out when None
Record(n, first, rest) ==
    (IF IsNone(first) THEN <<>> ELSE <<Entry(FieldName(1), Get(first))>>)
    \o (IF IsNone(rest) THEN <<>>
        ELSE [i \in 1..(n - 1) |-> Entry(FieldName(i + 1), Get(rest))])

\* a key no schema of the model declares, holding a value that fails the
\* checks of every field kind
Undeclared == Entry("undeclared", StrV("b"))

InitValidate ==
    /\ contracts = <<>>
    /\ versions = <<>>
    /\ clock = 0
    /\ last = NoOutcome
    /\ sessions = Idle
    /\ calc = Idle
    /\ det = Idle
    /\ rt = Idle
    /\ \E n \in 1..MaxFields, first \in FirstKinds, rest \in RestKinds,
          value \in {None} \cup {Some(v) : v \in FirstValues},
          others \in {None} \cup {Some(v) : v \in RestValues},
          undeclared \in BOOLEAN :
           LET doc == Dict([contract_version |-> "1.0",
                            schema |-> Fields(RawSchema(n, first, rest))])
           IN  /\ DocError(doc) = ""
               /\ val = [step |-> "input",
                         validator |-> SchemaValidator(ParseDoc(doc)),
                         data |-> Record(n, value, others)
                                      \o If(undeclared, <<Undeclared>>),
                         errors |-> <<>>]

Validate ==
    /\ val.step = "input"
    /\ LET result == validate(val.validator, val.data)
       IN  val' = [val EXCEPT
                       !.step = IF result.raised THEN "TypeError" ELSE "done",
                       !.errors = result.errors]
    /\ UNCHANGED <<contracts, versions, clock, last, sessions, calc, det, rt>>

NextValidate == Validate

SpecValidate == InitValidate /\ [][NextValidate]_vars

\* C7: validate returns at most 10 errors for any record and any schema.
C7_AtMostTenErrors ==
    val.step = "done" => Len(val.errors) <= 10

(***************************************************************************)
(* SpecRoundTrip: a parsed schema is serialized and the text parsed again. *)
(***************************************************************************)
ObjectSpec(properties) ==
    [type |-> "object", required |-> TRUE, properties |-> properties]

RoundTripKinds ==
    FieldPalette \cup FirstKinds
    \cup {With(BaseSpec, "pattern", ""),
          With(BaseSpec, "enum", <<>>),
          With(BaseSpec, "enum", <<StrV("A"), IntV(1)>>),
          With(BaseSpec, "description", "about"),
          [type |-> "float", required |-> FALSE, min |-> FloatV(1)],
          [type |-> "string", required |-> TRUE, min_length |-> 0, max_length |-> 2],
          ObjectSpec(<<>>),
          ObjectSpec(<<Entry("inner", ObjectSpec(<<Entry("name", BaseSpec)>>))>>),
          [type |-> "array", required |-> TRUE, items |-> ObjectSpec(<<>>)]}

RoundTripDocs ==
    {Dict([contract_version |-> "1.0", schema |-> Fields(raw)]) :
        raw \in {<<Entry("a", a)>> : a \in RoundTripKinds}
                \cup {<<Entry("a", a), Entry("b", b)>> :
                         a \in RoundTripKinds, b \in SecondField}}
    \cup {Dict([contract_version |-> "2.0", domain |-> "test",
                description |-> "about",
                schema |-> Fields(<<Entry("a", a)>>)]) : a \in RoundTripKinds}

InitRoundTrip ==
    /\ contracts = <<>>
    /\ versions = <<>>
    /\ clock = 0
    /\ last = NoOutcome
    /\ sessions = Idle
    /\ calc = Idle
    /\ det = Idle
    /\ val = Idle
    /\ \E doc \in RoundTripDocs :
           /\ DocError(doc) = ""
           /\ rt = [step |-> "input", schema |-> ParseDoc(doc), text |-> None,
                    error |-> "", result |-> None]

Serialize ==
    /\ rt.step = "input"
    /\ rt' = [rt EXCEPT !.step = "serialized",
                        !.text = Some(serialize_to_yaml(rt.schema))]
    /\ UNCHANGED <<contracts, versions, clock, last, sessions, calc, det, val>>

ParseAgain ==
    /\ rt.step = "serialized"
    /\ LET doc == LoadDocument(Get(rt.text))
       IN  rt' = [rt EXCEPT
                      !.step = "parsed",
                      !.error = DocError(doc),
                      !.result = IF DocError(doc) = "" THEN Some(ParseDoc(doc))
                                 ELSE None]
    /\ UNCHANGED <<contracts, versions, clock, last, sessions, calc, det, val>>

NextRoundTrip == Serialize \/ ParseAgain

SpecRoundTrip == InitRoundTrip /\ [][NextRoundTrip]_vars

\* same type, required flag and constraints, nested definitions included
RECURSIVE SameField(_, _)
SameField(f, g) ==
    /\ f.type = g.type
    /\ f.required = g.required
    /\ f.pattern = g.pattern
    /\ f.format = g.format
    /\ f.min = g.min
    /\ f.max = g.max
    /\ f.min_length = g.min_length
    /\ f.max_length = g.max_length
    /\ f.enum = g.enum
    /\ IsNone(f.items) = IsNone(g.items)
    /\ (~IsNone(f.items) /\ ~IsNone(g.items)) => SameField(Get(f.items), Get(g.items))
    /\ IsNone(f.properties) = IsNone(g.properties)
    /\ (~IsNone(f.properties) /\ ~IsNone(g.properties)) =>
           /\ Keys(Get(f.properties)) = Keys(Get(g.properties))
           /\ \A name \in Keys(Get(f.properties)) \cap Keys(Get(g.properties)) :
                  SameField(At(Get(f.properties), name), At(Get(g.properties), name))

SameFields(schema, other) ==
    /\ Keys(schema) = Keys(other)
    /\ \A name \in Keys(schema) \cap Keys(other) :
           SameField(At(schema, name), At(other, name))

\* C13: for every schema S the parser can produce,
\* parse_yaml(serialize_to_yaml(S)) succeeds and yields the same field set
\* with the same type, required flag and constraints for every field.
C13_RoundTrip ==
    rt.step = "parsed" =>
        /\ rt.error = ""
        /\ SameFields(rt.schema.schema, Get(rt.result).schema)

(***************************************************************************)
(* SpecQuery: the version operations together with the read-only calls of  *)
(* VersionController (get_version_by_number, get_version_history,          *)
(* compare_versions), one call at a time.                                  *)
(***************************************************************************)
\* texts offered to create_version: two that parse and one without a schema
QueryDocs == {"base", "breaking", "no_schema"}
Limits == 1..MaxVersions

InitQuery ==
    /\ contracts = <<>>
    /\ versions = <<>>
    /\ clock = 0
    /\ last = NoOutcome
    /\ sessions = Idle
    /\ calc = Idle
    /\ det = Idle
    /\ val = Idle
    /\ rt = Idle

\* every contract starts from the text whose age bound is a date string
QueryCreateContract ==
    /\ \E name \in ContractNames :
           create_contract(name, "test", "mixed_bound", Some("about"))
    /\ UNCHANGED <<sessions, calc, det, val, rt>>

QueryCreateVersion ==
    /\ \E contract_id \in AnyContractId, new_yaml \in QueryDocs,
          created_by \in CreatedBy :
           CreateVersion(contract_id, new_yaml, created_by)
    /\ UNCHANGED <<sessions, calc, det, val, rt>>

QueryRollback ==
    /\ \E contract_id \in AnyContractId, target_version \in TargetVersions,
          created_by \in CreatedBy, reason \in Reasons :
           rollback_to_version(contract_id, target_version, created_by, reason)
    /\ UNCHANGED <<sessions, calc, det, val, rt>>

QueryVersion ==
    /\ \E contract_id \in AnyContractId, version \in TargetVersions :
           GetVersionByNumber(contract_id, version)
    /\ UNCHANGED <<sessions, calc, det, val, rt>>

QueryHistory ==
    /\ \E contract_id \in AnyContractId, limit \in Limits :
           GetVersionHistory(contract_id, limit)
    /\ UNCHANGED <<sessions, calc, det, val, rt>>

QueryCompare ==
    /\ \E contract_id \in AnyContractId, version1 \in TargetVersions,
          version2 \in TargetVersions :
           compare_versions(contract_id, version1, version2)
    /\ UNCHANGED <<sessions, calc, det, val, rt>>

NextQuery ==
    \/ QueryCreateContract
    \/ QueryCreateVersion
    \/ QueryRollback
    \/ QueryVersion
    \/ QueryHistory
    \/ QueryCompare

SpecQuery == InitQuery /\ [][NextQuery]_vars

\* text contains part
Contains(text, part) ==
    \E i \in 1..(Len(text) - Len(part) + 1) :
        SubSeq(text, i, i + Len(part) - 1) = part

Lookups == {"get_version_by_number", "compare_versions", "rollback_to_version"}

\* the last call was a lookup of a version the contract has no record of
\* (for compare_versions: either of the two)
Missed ==
    /\ last.op \in Lookups
    /\ last.contract_id \in DOMAIN contracts
    /\ \/ IsNone(get_version_by_number(versions, last.contract_id, last.target))
       \/ /\ last.op = "compare_versions"
          /\ IsNone(get_version_by_number(versions, last.contract_id,
                                          last.prev_version))

\* the version number the missed lookup reports
MissedVersion ==
    IF /\ last.op = "compare_versions"
       /\ IsNone(get_version_by_number(versions, last.contract_id,
                                       last.prev_version))
    THEN last.prev_version ELSE last.target

StoredText(version) ==
    Get(get_version_by_number(versions, last.contract_id, version)).yaml_content

\* C17: compare_versions leaves the contract rows and the version records as
\* they were, whether it returns or raises; called on two stored versions
\* whose texts the change detector can compare, it returns a change report
\* of the first text against the second.
C17_CompareIsReadOnly ==
    [][last'.op = "compare_versions" =>
          /\ contracts' = contracts
          /\ versions' = versions
          /\ clock' = clock
          /\ LET v1 == get_version_by_number(versions, last'.contract_id,
                                             last'.prev_version)
                 v2 == get_version_by_number(versions, last'.contract_id,
                                             last'.target)
                 pair == <<Get(v1).yaml_content, Get(v2).yaml_content>>
             IN  /\ last'.error = "" => ~IsNone(v1) /\ ~IsNone(v2)
                 /\ (~IsNone(v1) /\ ~IsNone(v2) /\ pair \in DetectablePairs) =>
                        /\ last'.error = ""
                        /\ ~IsNone(last'.report)
                        /\ Get(last'.report) \in ReportsOf[pair]]_vars

\* version 1.0.0 compared with version 2.0.0, which dropped a field
C17_Witness ==
    /\ last.op = "compare_versions"
    /\ last.error = ""
    /\ last.prev_version = FormatVersion(1, 0, 0)
    /\ last.target = FormatVersion(2, 0, 0)
    /\ StoredText(last.prev_version) = "mixed_bound"
    /\ StoredText(last.target) = "breaking"
    /\ Get(last.report).breaking_changes = <<Change("FIELD_REMOVED", "age")>>

\* two stored versions whose bounds detect_changes cannot compare
C17_WitnessRaises ==
    /\ last.op = "compare_versions"
    /\ last.error = "TypeError"
    /\ Len(versions) = 3

\* C20: get_version_history returns at most limit records of the contract,
\* newest first: the first carries the contract's current version and each
\* record has a greater version than the one after it.
C20_HistoryNewestFirst ==
    last.op = "get_version_history" =>
        LET rows == last.result
            all == VersionsOf(versions, last.contract_id)
        IN  /\ Len(rows) = Min2(last.limit, Len(all))
            /\ \A i \in 1..Len(rows) : rows[i] = all[Len(all) + 1 - i]
            /\ rows # <<>> =>
                   rows[1].version = contracts[last.contract_id].version
            /\ \A i \in 1..(Len(rows) - 1) :
                   VersionLess(rows[i + 1].version, rows[i].version)

\* the two newest of three records, asked for after a rollback
C20_Witness ==
    /\ last.op = "get_version_history"
    /\ last.limit = 2
    /\ Len(VersionsOf(versions, last.contract_id)) = 3
    /\ Len(last.result) = 2
    /\ last.result[1].change_type = "ROLLBACK"
    /\ last.result[1].version = FormatVersion(3, 0, 0)
    /\ last.result[2].version = FormatVersion(2, 0, 0)

\* C18: a create_version that raises leaves every contract row (version and
\* live text included) and every version record as they were; an unknown
\* contract id raises ContractNotFoundError and a new text that does not
\* parse raises InvalidYAMLError.
C18_FailedCreateVersion ==
    [][last'.op = "create_version" =>
          \A new_yaml \in QueryDocs, created_by \in CreatedBy :
              CreateVersion(last'.contract_id, new_yaml, created_by) =>
                  /\ last'.error # "" =>
                         contracts' = contracts /\ versions' = versions
                  /\ last'.contract_id \notin DOMAIN contracts =>
                         last'.error = "ContractNotFoundError"
                  /\ (last'.contract_id \in DOMAIN contracts
                         /\ (new_yaml \notin ParsableDocs
                               \/ contracts[last'.contract_id].yaml_content
                                      \notin ParsableDocs)) =>
                         last'.error = "InvalidYAMLError"]_vars

\* a text without a schema offered to a contract that already has two records
C18_Witness ==
    /\ last.op = "create_version"
    /\ last.error = "InvalidYAMLError"
    /\ last.contract_id \in DOMAIN contracts
    /\ Len(VersionsOf(versions, last.contract_id)) = 2
    /\ contracts[last.contract_id].version = FormatVersion(2, 0, 0)

(***************************************************************************)
(* SpecParse: parse_yaml on documents whose second field definition and    *)
(* whose quality_rules block are drawn from well-formed and malformed      *)
(* examples.                                                               *)
(***************************************************************************)
\* field definitions validate_field_definition accepts
GoodFieldDefs ==
    {[type |-> "string"],
     [type |-> "string", required |-> FALSE, pattern |-> "^[a-z]+$"],
     [type |-> "integer", min |-> IntV(0), max |-> IntV(MaxBound)],
     [type |-> "array", items |-> [type |-> "string"]],
     [type |-> "object",
      properties |-> <<Entry("city", [type |-> "string"])>>]}

\* field definitions that are structurally invalid
BadFieldDefs ==
    {[scalar |-> TRUE],
     [required |-> TRUE],
     [type |-> "text"],
     [type |-> "string", pattern |-> "["],
     [type |-> "string", format |-> "phone"],
     [type |-> "integer", min |-> IntV(MaxBound), max |-> IntV(0)],
     [type |-> "string", min_length |-> MaxBound, max_length |-> 0],
     [type |-> "array"],
     [type |-> "array", items |-> [type |-> "text"]],
     [type |-> "object"],
     [type |-> "object", properties |-> <<Entry("city", [scalar |-> TRUE])>>]}

\* quality_rules blocks validate_quality_rules accepts
GoodQualityRules ==
    {Dict([freshness |-> Dict([max_latency_hours |-> IntV(24)])]),
     Dict([completeness |-> Dict([min_row_count |-> IntV(1),
                                  max_null_percentage |-> IntV(5)])]),
     Dict([uniqueness |-> Dict([fields |-> <<"user_id">>])]),
     Dict([statistics |-> Dict([age |-> Dict([mean |-> IntV(30)])])])}

\* malformed quality_rules blocks
BadQualityRules ==
    {[kind |-> "scalar"],
     Dict([freshness |-> [kind |-> "scalar"]]),
     Dict([freshness |-> Dict([timestamp_field |-> StrV("ts")])]),
     Dict([freshness |-> Dict([max_latency_hours |-> StrV("24")])]),
     Dict([freshness |-> Dict([max_latency_hours |-> IntV(0)])]),
     Dict([completeness |-> [kind |-> "scalar"]]),
     Dict([completeness |-> Dict([min_row_count |-> IntV(-1)])]),
     Dict([completeness |-> Dict([min_row_count |-> FloatV(1)])]),
     Dict([completeness |-> Dict([max_null_percentage |-> IntV(101)])]),
     Dict([uniqueness |-> [kind |-> "scalar"]]),
     Dict([uniqueness |-> Dict([scope |-> StrV("all")])]),
     Dict([uniqueness |-> Dict([fields |-> <<>>])]),
     Dict([statistics |-> [kind |-> "scalar"]]),
     Dict([statistics |-> Dict([age |-> [kind |-> "scalar"]])])}

\* the document with the given second field and quality_rules block
\* (None: the document has no quality_rules key)
ParseInput(field_def, quality_rules) ==
    LET schema == Fields(<<UserId, Entry("extra", field_def)>>)
    IN  IF IsNone(quality_rules)
        THEN Dict([contract_version |-> "1.0", domain |-> "test",
                   schema |-> schema])
        ELSE Dict([contract_version |-> "1.0", domain |-> "test",
                   schema |-> schema, quality_rules |-> Get(quality_rules)])

InitParse ==
    /\ contracts = <<>>
    /\ versions = <<>>
    /\ clock = 0
    /\ last = NoOutcome
    /\ sessions = Idle
    /\ calc = Idle
    /\ det = Idle
    /\ val = Idle
    /\ \E field_def \in GoodFieldDefs \cup BadFieldDefs,
          quality_rules \in {None} \cup {Some(q) : q \in GoodQualityRules
                                                      \cup BadQualityRules} :
           rt = [step |-> "document", field_def |-> field_def,
                 quality_rules |-> quality_rules, error |-> "", result |-> None]

\* parse_yaml on the document: the schema it returns or the error it raises
Parse ==
    /\ rt.step = "document"
    /\ LET doc == ParseInput(rt.field_def, rt.quality_rules)
       IN  rt' = [rt EXCEPT !.step = "parsed",
                            !.error = DocError(doc),
                            !.result = IF DocError(doc) = ""
                                       THEN Some(ParseDoc(doc)) ELSE None]
    /\ UNCHANGED <<contracts, versions, clock, last, sessions, calc, det, val>>

NextParse == Parse

SpecParse == InitParse /\ [][NextParse]_vars

\* C21: a malformed quality_rules block never fails parse_yaml: the parse
\* returns with quality_rules None and both fields parsed, whereas an
\* invalid field definition fails the parse with InvalidSchemaError whatever
\* the quality_rules block is.
C21_QualityRulesBestEffort ==
    rt.step = "parsed" =>
        /\ rt.field_def \in BadFieldDefs =>
               rt.error = "InvalidSchemaError" /\ IsNone(rt.result)
        /\ (/\ rt.field_def \in GoodFieldDefs
            /\ ~IsNone(rt.quality_rules)
            /\ Get(rt.quality_rules) \in BadQualityRules) =>
               /\ rt.error = ""
               /\ IsNone(Get(rt.result).quality_rules)
               /\ Keys(Get(rt.result).schema) = {"user_id", "extra"}
               /\ At(Get(rt.result).schema, "extra").type = rt.field_def.type
        /\ (/\ rt.field_def \in GoodFieldDefs
            /\ ~IsNone(rt.quality_rules)
            /\ Get(rt.quality_rules) \in GoodQualityRules) =>
               rt.error = "" /\ ~IsNone(Get(rt.result).quality_rules)

\* a freshness rule without max_latency_hours beside two valid fields
C21_Witness ==
    /\ rt.step = "parsed"
    /\ rt.field_def = [type |-> "integer", min |-> IntV(0), max |-> IntV(MaxBound)]
    /\ rt.quality_rules =
           Some(Dict([freshness |-> Dict([timestamp_field |-> StrV("ts")])]))
    /\ rt.error = ""
    /\ IsNone(Get(rt.result).quality_rules)

(***************************************************************************)
(* QualityValidator (app/core/quality_validator.py).  data is the list of  *)
(* records; a record is an ordered dict of values; now and the timestamps  *)
(* are read in years.                                                      *)
(***************************************************************************)
QualityError(rule_type, severity) == [rule_type |-> rule_type, severity |-> severity]

timestamp_fields == <<"timestamp", "created_at", "updated_at", "date">>

\* the timestamp the inner loop of _check_freshness reads from one record:
\* the first of the fields that the record holds decides, unless its value is
\* neither a string nor a number; None when nothing is read or parsing fails
RECURSIVE RecordTimestamp(_, _)
RecordTimestamp(record, fields) ==
    IF fields = <<>> THEN None
    ELSE IF Head(fields) \notin Keys(record)
         THEN RecordTimestamp(record, Tail(fields))
    ELSE LET value == At(record, Head(fields))
         IN  IF value.t = "str"
             THEN IF value.s \in IsoStrings THEN Some(IsoTime(value.s)) ELSE None
             ELSE IF value.t \in NumTags \cup {"bool"} THEN Some(Epoch)
             ELSE RecordTimestamp(record, Tail(fields))

\* (now - ts).total_seconds() / 3600
age_hours(ts, now) == (now - ts) * 365 * 24

_check_freshness(rules, data, now) ==
    LET max_latency_hours == Opt(rules.freshness.d, "max_latency_hours")
        Stale(record) ==
            LET ts == RecordTimestamp(record, timestamp_fields)
            IN  ~IsNone(ts) /\ age_hours(Get(ts), now) > Get(max_latency_hours).n
    IN  IF ~Truthy(max_latency_hours) THEN <<>>
        ELSE If(\E i \in 1..Len(data) : Stale(data[i]),
                <<QualityError("FRESHNESS", "ERROR")>>)

\* record.get(field) is None
GetIsNone(record, field) ==
    field \notin Keys(record) \/ At(record, field).t = "none"

_check_completeness(rules, data) ==
    LET completeness == rules.completeness.d
        min_row_count == Opt(completeness, "min_row_count")
        max_null_percentage == Opt(completeness, "max_null_percentage")
        null_count(field) ==
            Cardinality({i \in 1..Len(data) : GetIsNone(data[i], field)})
        TooManyNulls(field) ==
            null_count(field) * 100 > Get(max_null_percentage).n * Len(data)
    IN  If(Truthy(min_row_count) /\ Len(data) < Get(min_row_count).n,
           <<QualityError("COMPLETENESS", "ERROR")>>)
        \o (IF Truthy(max_null_percentage) /\ data # <<>>
            THEN Concat([i \in 1..Len(data[1]) |->
                            If(TooManyNulls(data[1][i].name),
                               <<QualityError("COMPLETENESS", "ERROR")>>)] @@ <<>>)
            ELSE <<>>)

\* the values Counter is given for one field
FieldValues(data, field) ==
    Concat([i \in 1..Len(data) |->
               If(field \in Keys(data[i]), <<At(data[i], field)>>)] @@ <<>>)

\* Counter(values) raises TypeError on a list or a dict
UniquenessRaises(rules, data) ==
    \E k \in 1..Len(rules.uniqueness.d.fields) :
        LET values == FieldValues(data, rules.uniqueness.d.fields[k])
        IN  \E i \in 1..Len(values) : values[i].t \in {"list", "dict"}

_check_uniqueness(rules, data) ==
    LET fields == rules.uniqueness.d.fields
        Duplicated(field) ==
            LET values == FieldValues(data, field)
            IN  \E i, j \in 1..Len(values) : i # j /\ PyEq(values[i], values[j])
    IN  Concat([k \in 1..Len(fields) |->
                   If(Duplicated(fields[k]),
                      <<QualityError("UNIQUENESS", "ERROR")>>)] @@ <<>>)

\* the numbers of one field; mean * len(values) is their sum
RECURSIVE Sum(_)
Sum(values) == IF values = <<>> THEN 0 ELSE Head(values).n + Sum(Tail(values))

NumericValues(data, field) ==
    SelectSeq(FieldValues(data, field), LAMBDA v : v.t \in NumTags \cup {"bool"})

\* `"min" in constraints["mean"]` raises TypeError when the constraint is a
\* number and some record holds a number for the field
StatisticsRaise(rules, data) ==
    \E field \in DOMAIN rules.statistics.d :
        /\ NumericValues(data, field) # <<>>
        /\ \E c \in {"mean", "std_dev"} :
               /\ Has(rules.statistics.d[field].d, c)
               /\ ~Has(rules.statistics.d[field].d[c], "kind")

\* the checks of the mean; the fields of the model hold one number per
\* batch at most, so that std_dev is 0
FieldStatistics(constraints, values) ==
    LET mean_constraints == constraints.mean.d
    IN  IF Has(constraints, "mean")
        THEN If(Has(mean_constraints, "min")
                    /\ Sum(values) < mean_constraints.min.n * Len(values),
                <<QualityError("STATISTICS", "WARNING")>>)
             \o If(Has(mean_constraints, "max")
                       /\ Sum(values) > mean_constraints.max.n * Len(values),
                   <<QualityError("STATISTICS", "WARNING")>>)
        ELSE <<>>

StatFields == <<"age", "score">>

_check_statistics(rules, data) ==
    LET stats_rules == rules.statistics.d
    IN  Concat([k \in 1..Len(StatFields) |->
                   IF Has(stats_rules, StatFields[k])
                          /\ NumericValues(data, StatFields[k]) # <<>>
                   THEN FieldStatistics(stats_rules[StatFields[k]].d,
                                        NumericValues(data, StatFields[k]))
                   ELSE <<>>] @@ <<>>)

QualityValidationResult(passed, errors) == [passed |-> passed, errors |-> errors, raised |-> FALSE]

QualityRaise == [passed |-> FALSE, errors |-> <<>>, raised |-> TRUE]

\* QualityValidator(rules).validate(data) for a dict: data becomes [data]
QualityValidate(rules, record, now) ==
    LET data == <<record>>
        errors ==
            (IF Has(rules, "freshness") THEN _check_freshness(rules, data, now)
             ELSE <<>>)
            \o (IF Has(rules, "completeness")
                THEN _check_completeness(rules, data) ELSE <<>>)
            \o (IF Has(rules, "uniqueness")
                THEN _check_uniqueness(rules, data) ELSE <<>>)
            \o (IF Has(rules, "statistics")
                THEN _check_statistics(rules, data) ELSE <<>>)
        passed == \A i \in 1..Len(errors) : errors[i].severity # "ERROR"
    IN  IF \/ Has(rules, "uniqueness") /\ UniquenessRaises(rules, data)
           \/ Has(rules, "statistics") /\ StatisticsRaise(rules, data)
        THEN QualityRaise
        ELSE QualityValidationResult(passed, errors)

(***************************************************************************)
(* ValidationEngine.validate_record (app/core/validation_engine.py).       *)
(***************************************************************************)
ValidationResult(status, errors) == [status |-> status, errors |-> errors, raised |-> FALSE]

EngineRaise == [status |-> "", errors |-> <<>>, raised |-> TRUE]

\* a quality failure that sets the status and leaves the error list alone
validate_record_quality_errors_dropped(contract_schema, data, now) ==
    LET schema_result == validate(SchemaValidator(contract_schema), data)
        quality_result ==
            QualityValidate(Get(contract_schema.quality_rules), data, now)
    IN  IF schema_result.raised THEN EngineRaise
        ELSE IF schema_result.errors # <<>>
             THEN ValidationResult("FAIL", schema_result.errors)
        ELSE IF IsNone(contract_schema.quality_rules)
                    \/ DOMAIN Get(contract_schema.quality_rules) = {}
             THEN ValidationResult("PASS", <<>>)
        ELSE IF quality_result.raised THEN EngineRaise
        ELSE IF quality_result.passed THEN ValidationResult("PASS", <<>>)
        ELSE ValidationResult("FAIL", <<>>)

validate_record(contract_schema, data, now) ==
    LET schema_result == validate(SchemaValidator(contract_schema), data)
        schema_errors == schema_result.errors
        quality_result ==
            QualityValidate(Get(contract_schema.quality_rules), data, now)
        quality_errors ==
            [i \in 1..Len(quality_result.errors) |->
                ValidationError("quality", quality_result.errors[i].rule_type)]
            @@ <<>>
    IN  IF schema_result.raised THEN EngineRaise
        ELSE IF schema_errors # <<>> THEN ValidationResult("FAIL", schema_errors)
        ELSE IF IsNone(contract_schema.quality_rules)
                    \/ DOMAIN Get(contract_schema.quality_rules) = {}
             THEN ValidationResult("PASS", schema_errors)
        ELSE IF quality_result.raised THEN EngineRaise
        ELSE IF quality_result.passed THEN ValidationResult("PASS", schema_errors)
        ELSE ValidationResult("FAIL", schema_errors \o quality_errors)

\* the row _store_validation_result adds: errors is None for an empty list
DBValidationResult(validation_result) ==
    [status |-> validation_result.status,
     errors |-> IF validation_result.errors = <<>> THEN None
                ELSE Some(validation_result.errors)]

(***************************************************************************)
(* SpecEngine: validate_record on one record against a contract whose     *)
(* quality rules, record and clock reading are drawn from examples.        *)
(***************************************************************************)
Score == Entry("score", [type |-> "float", required |-> FALSE])

EngineSchemas == {<<UserId>>, <<UserId, Age, Score>>}

EngineQualityRules ==
    {Dict([freshness |-> Dict([max_latency_hours |-> IntV(24)])]),
     Dict([completeness |-> Dict([min_row_count |-> IntV(1),
                                  max_null_percentage |-> IntV(5)])]),
     Dict([completeness |-> Dict([min_row_count |-> IntV(2)])]),
     Dict([uniqueness |-> Dict([fields |-> <<"user_id", "tags">>])]),
     Dict([statistics |->
              Dict([age |-> Dict([mean |-> Dict([min |-> IntV(1),
                                                 max |-> IntV(MaxBound)])])])]),
     Dict([statistics |-> Dict([score |-> Dict([mean |-> IntV(1)])])]),
     Dict([freshness |-> Dict([max_latency_hours |-> IntV(24)]),
           statistics |->
              Dict([age |-> Dict([mean |-> Dict([min |-> IntV(1)])])])]),
     Dict([audit |-> Dict([owner |-> StrV("a")])]),
     Dict([freshness |-> [kind |-> "scalar"]])}

EngineRecords ==
    {<<>>,
     <<Entry("user_id", StrV("a"))>>,
     <<Entry("user_id", StrV("a")), Entry("age", IntV(0))>>,
     <<Entry("user_id", StrV("a")), Entry("age", IntV(1)),
       Entry("score", FloatV(1))>>,
     <<Entry("user_id", StrV("a")), Entry("age", IntV(MaxBound + 1)),
       Entry("timestamp", StrV("2021-01-01"))>>,
     <<Entry("user_id", StrV("a")), Entry("age", IntV(0)),
       Entry("timestamp", StrV("2020-01-01"))>>,
     <<Entry("user_id", StrV("a")), Entry("age", IntV(1)),
       Entry("timestamp", StrV("b")), Entry("created_at", IntV(1))>>,
     <<Entry("user_id", StrV("a")), Entry("age", IntV(1)),
       Entry("timestamp", NoneV), Entry("created_at", StrV("2020-01-01"))>>,
     <<Entry("user_id", StrV("a")), Entry("age", IntV(1)),
       Entry("score", NoneV)>>,
     <<Entry("user_id", StrV("a")), Entry("age", IntV(1)),
       Entry("tags", ListV(<<StrV("a")>>))>>,
     <<Entry("user_id", IntV(1)), Entry("age", IntV(1))>>}

Nows == {2021, 2022}

InitEngine ==
    /\ contracts = <<>>
    /\ versions = <<>>
    /\ clock = 0
    /\ last = NoOutcome
    /\ sessions = Idle
    /\ calc = Idle
    /\ det = Idle
    /\ rt = Idle
    /\ \E schema \in EngineSchemas,
          quality_rules \in {None} \cup {Some(q) : q \in EngineQualityRules},
          data \in EngineRecords, now \in Nows, known \in BOOLEAN :
           LET doc == IF IsNone(quality_rules)
                      THEN Dict([contract_version |-> "1.0",
                                 schema |-> Fields(schema)])
                      ELSE Dict([contract_version |-> "1.0",
                                 schema |-> Fields(schema),
                                 quality_rules |-> Get(quality_rules)])
           IN  val = [step |-> "request",
                      contract |-> IF known THEN Some(doc) ELSE None,
                      data |-> data, now |-> now,
                      result |-> None, stored |-> <<>>]

\* validate_record: ValueError without the contract, else the result, which
\* is stored before it is returned
ValidateRecord ==
    /\ val.step = "request"
    /\ IF IsNone(val.contract)
       THEN val' = [val EXCEPT !.step = "ValueError"]
       ELSE LET contract_schema == ParseDoc(Get(val.contract))
                result == validate_record(contract_schema, val.data, val.now)
            IN  IF result.raised
                THEN val' = [val EXCEPT !.step = "TypeError"]
                ELSE val' = [val EXCEPT
                                 !.step = "returned",
                                 !.result = Some(result),
                                 !.stored = Append(@, DBValidationResult(result))]
    /\ UNCHANGED <<contracts, versions, clock, last, sessions, calc, det, rt>>

NextEngine == ValidateRecord

SpecEngine == InitEngine /\ [][NextEngine]_vars

\* C22: the result of validate_record has status PASS exactly when its error
\* list is empty and FAIL exactly when it holds an error, also when the
\* record fails on the quality rules only; the stored row agrees.
C22_StatusMatchesErrors ==
    val.step = "returned" =>
        LET result == Get(val.result)
        IN  /\ result.status \in {"PASS", "FAIL"}
            /\ result.status = "PASS" <=> result.errors = <<>>
            /\ result.status = "FAIL" <=> Len(result.errors) >= 1
            /\ val.stored = <<DBValidationResult(result)>>
            /\ val.stored[1].status = "PASS" <=> IsNone(val.stored[1].errors)

\* a record that passes the schema and fails on freshness alone
C22_Witness ==
    /\ val.step = "returned"
    /\ Get(val.result).status = "FAIL"
    /\ Get(val.result).errors = <<ValidationError("quality", "FRESHNESS")>>
    /\ validate(SchemaValidator(ParseDoc(Get(val.contract))), val.data).errors = <<>>

(***************************************************************************)
(* Claims about validate, checked under SpecValidate.                      *)
(***************************************************************************)
\* the error path belongs to the declared field: the name itself, or the
\* name followed by an index or a property
Owns(name, path) ==
    \/ path = name
    \/ /\ Len(path) > Len(name)
       /\ SubSeq(path, 1, Len(name)) = name
       /\ SubSeq(path, Len(name) + 1, Len(name) + 1) \in {".", "["}

ErrorsOf(name) == SelectSeq(val.errors, LAMBDA e : Owns(name, e.field))

\* the errors of the first j declared fields
ErrorsUpTo(j) ==
    SelectSeq(val.errors,
              LAMBDA e : \E k \in 1..j : Owns(val.validator.schema[k].name, e.field))

\* field j went through its type-specific checks
Checked(j) ==
    LET field_name == val.validator.schema[j].name
        field_def == val.validator.schema[j].def
    IN  /\ field_name \in Keys(val.data)
        /\ ~(At(val.data, field_name) = NoneV /\ ~field_def.required)
        /\ At(val.data, field_name).t \in TypeChecks(field_def.type)

\* the loop of validate reaches field i: no earlier field ended its checks
\* with ten or more errors in the list
Visited(i) == \A j \in 1..(i - 1) : ~(Checked(j) /\ Len(ErrorsUpTo(j)) >= 10)

\* the three cases of a declared field or a key, the first one for the
\* fields in reach
FieldCases(reach) ==
    /\ \A i \in 1..Len(val.validator.schema) :
           LET field_name == val.validator.schema[i].name
               field_def == val.validator.schema[i].def
           IN  /\ (i \in reach /\ field_def.required
                       /\ field_name \notin Keys(val.data)) =>
                      ErrorsOf(field_name) =
                          <<ValidationError(field_name, "REQUIRED_FIELD_MISSING")>>
               /\ (~field_def.required /\ field_name \notin Keys(val.data)) =>
                      ErrorsOf(field_name) = <<>>
    /\ \A k \in Keys(val.data) \ Keys(val.validator.schema) : ErrorsOf(k) = <<>>
    /\ \A i \in 1..Len(val.errors) :
           \E name \in Keys(val.validator.schema) : Owns(name, val.errors[i].field)

\* C23: validate goes through the declared fields only: a required field the
\* record lacks yields exactly one REQUIRED_FIELD_MISSING error naming it,
\* provided the loop reaches the field (it stops after a field whose checks
\* leave ten or more errors); an optional field the record lacks yields no
\* error; keys the schema does not declare never produce an error.
C23_DeclaredFieldsOnly ==
    val.step = "done" =>
        FieldCases({i \in 1..Len(val.validator.schema) : Visited(i)})

\* C23 as stated: every required field the record lacks yields its error,
\* wherever the field stands in the schema.
C23_EveryMissingFieldReported ==
    val.step = "done" => FieldCases(1..Len(val.validator.schema))

\* an optional f1 and a required f2 both missing beside an undeclared key
C23_Witness ==
    /\ val.step = "done"
    /\ Len(val.validator.schema) = 2
    /\ ~val.validator.schema[1].def.required
    /\ val.validator.schema[2].def.required
    /\ Keys(val.data) = {"undeclared"}
    /\ val.errors = <<ValidationError("f2", "REQUIRED_FIELD_MISSING")>>

\* the paths at which the record holds a value of the wrong type: a declared
\* field, or a declared property of a declared object held by the record
WrongType(value, field_def) == value.t \notin TypeChecks(field_def.type)

\* C24: a value that fails the type check gets TYPE_MISMATCH and nothing
\* else: at the path of a TYPE_MISMATCH error, and below it, the list holds
\* no other error, and a top-level field of the wrong type that the loop
\* reaches has exactly that one error, whatever pattern, format, lengths,
\* range, enum, items or properties it declares.
C24_TypeMismatchAlone ==
    val.step = "done" =>
        /\ \A i \in 1..Len(val.errors) :
               val.errors[i].error_type = "TYPE_MISMATCH" =>
                   ErrorsOf(val.errors[i].field) = <<val.errors[i]>>
        /\ \A i \in 1..Len(val.validator.schema) :
               LET field_name == val.validator.schema[i].name
                   field_def == val.validator.schema[i].def
               IN  (/\ Visited(i)
                    /\ field_name \in Keys(val.data)
                    /\ ~(At(val.data, field_name) = NoneV /\ ~field_def.required)
                    /\ WrongType(At(val.data, field_name), field_def)) =>
                       ErrorsOf(field_name) =
                           <<ValidationError(field_name, "TYPE_MISMATCH")>>

\* an integer given to a string field with pattern, format, lengths and enum
C24_Witness ==
    /\ val.step = "done"
    /\ val.validator.schema[1].def.type = "string"
    /\ ~IsNone(val.validator.schema[1].def.enum)
    /\ "f1" \in Keys(val.data)
    /\ At(val.data, "f1") = IntV(0)
    /\ ErrorsOf("f1") = <<ValidationError("f1", "TYPE_MISMATCH")>>

(***************************************************************************)
(* SpecCompat: detect_changes on two schemas of one field "a", and         *)
(* validate of one record against each of the two.                         *)
(***************************************************************************)
CompatPalette ==
    {BaseSpec,
     With(BaseSpec, "required", FALSE),
     With(BaseSpec, "enum", <<StrV("A")>>),
     With(BaseSpec, "enum", <<StrV("A"), StrV("B")>>),
     With(BaseSpec, "pattern", "a"),
     With(BaseSpec, "pattern", "b"),
     With(BaseSpec, "pattern", "ab"),
     With(BaseSpec, "format", "email"),
     With(BaseSpec, "min_length", 1),
     With(BaseSpec, "min_length", MaxBound),
     With(BaseSpec, "max_length", 1),
     With(BaseSpec, "type", "integer"),
     With(With(BaseSpec, "type", "integer"), "min", IntV(1)),
     With(With(BaseSpec, "type", "integer"), "max", IntV(MaxBound)),
     With(With(With(BaseSpec, "type", "integer"), "min", IntV(0)),
          "max", IntV(MaxBound))}

CompatSchemas ==
    {ParseDoc(Dict([contract_version |-> "1.0",
                    schema |-> Fields(<<Entry("a", a)>>)])) : a \in CompatPalette}

CompatRecords ==
    {<<>>} \cup {<<Entry("a", v)>> :
                    v \in {NoneV, StrV("A"), StrV("B"), StrV("a"), StrV("ab"),
                           StrV("b"), StrV("a@b.co"), IntV(0), IntV(1),
                           IntV(MaxBound + 1)}}

InitCompat ==
    /\ contracts = <<>>
    /\ versions = <<>>
    /\ clock = 0
    /\ last = NoOutcome
    /\ sessions = Idle
    /\ calc = Idle
    /\ val = Idle
    /\ rt = Idle
    /\ \E old_schema \in CompatSchemas, new_schema \in CompatSchemas,
          data \in CompatRecords :
           det = [step |-> "input", old_schema |-> old_schema,
                  new_schema |-> new_schema, data |-> data, report |-> None,
                  old_errors |-> <<>>, new_errors |-> <<>>]

\* the report of detect_changes and the errors of validate under each schema
DetectAndValidate ==
    /\ det.step = "input"
    /\ LET old_result == validate(SchemaValidator(det.old_schema), det.data)
           new_result == validate(SchemaValidator(det.new_schema), det.data)
       IN  IF \/ DetectRaises(det.old_schema, det.new_schema)
              \/ old_result.raised \/ new_result.raised
           THEN det' = [det EXCEPT !.step = "TypeError"]
           ELSE \E order \in SchemaOrders(det.old_schema, det.new_schema) :
                    det' = [det EXCEPT
                                !.step = "done",
                                !.report = Some(detect_changes(det.old_schema,
                                                    det.new_schema, order)),
                                !.old_errors = old_result.errors,
                                !.new_errors = new_result.errors]
    /\ UNCHANGED <<contracts, versions, clock, last, sessions, calc, val, rt>>

NextCompat == DetectAndValidate

SpecCompat == InitCompat /\ [][NextCompat]_vars

\* C25: when detect_changes reports no breaking change from old to new, a
\* record that validates against old with zero errors validates against new
\* with zero errors.
C25_NonBreakingKeepsValidData ==
    (/\ det.step = "done"
     /\ Get(det.report).breaking_changes = <<>>
     /\ det.old_errors = <<>>) =>
        det.new_errors = <<>>

(***************************************************************************)
(* Claims about the changes recorded for a field of both schemas, checked  *)
(* under SpecDetect.                                                       *)
(***************************************************************************)
CommonFields == Keys(det.old_schema.schema) \cap Keys(det.new_schema.schema)

OldSpec(f) == At(det.old_schema.schema, f)
NewSpec(f) == At(det.new_schema.schema, f)

\* how often the report lists the change among the breaking / non-breaking
Breaking(type, f) == EntriesOf(Report.breaking_changes, type, f)
NonBreaking(type, f) == EntriesOf(Report.non_breaking_changes, type, f)

\* a bound of new is narrower: a higher or new min, a lower or new max
SomeBoundNarrower(f) ==
    \/ /\ ~IsNone(NewSpec(f).min)
       /\ (IsNone(OldSpec(f).min) \/ PyGt(Get(NewSpec(f).min), Get(OldSpec(f).min)))
    \/ /\ ~IsNone(NewSpec(f).max)
       /\ (IsNone(OldSpec(f).max) \/ PyLt(Get(NewSpec(f).max), Get(OldSpec(f).max)))

\* a bound of new is wider: a lower or dropped min, a higher or dropped max
SomeBoundWider(f) ==
    \/ /\ ~IsNone(OldSpec(f).min)
       /\ (IsNone(NewSpec(f).min) \/ PyLt(Get(NewSpec(f).min), Get(OldSpec(f).min)))
    \/ /\ ~IsNone(OldSpec(f).max)
       /\ (IsNone(NewSpec(f).max) \/ PyGt(Get(NewSpec(f).max), Get(OldSpec(f).max)))

\* C26: a field of both schemas gets at most one of CONSTRAINT_TIGHTENED and
\* CONSTRAINT_RELAXED: the breaking CONSTRAINT_TIGHTENED exactly when some
\* bound is narrower (also when the other bound is wider), the non-breaking
\* CONSTRAINT_RELAXED exactly when no bound is narrower and some bound is
\* wider, and neither when min and max are unchanged.
C26_RangeChange ==
    det.step = "done" =>
        \A f \in CommonFields :
            /\ Breaking("CONSTRAINT_TIGHTENED", f)
                   + NonBreaking("CONSTRAINT_RELAXED", f) <= 1
            /\ Breaking("CONSTRAINT_RELAXED", f) = 0
            /\ NonBreaking("CONSTRAINT_TIGHTENED", f) = 0
            /\ Breaking("CONSTRAINT_TIGHTENED", f) = 1 <=> SomeBoundNarrower(f)
            /\ NonBreaking("CONSTRAINT_RELAXED", f) = 1 <=>
                   (~SomeBoundNarrower(f) /\ SomeBoundWider(f))
            /\ (OldSpec(f).min = NewSpec(f).min /\ OldSpec(f).max = NewSpec(f).max) =>
                   /\ Breaking("CONSTRAINT_TIGHTENED", f) = 0
                   /\ NonBreaking("CONSTRAINT_RELAXED", f) = 0

\* min raised from 0 to 1 while max is dropped: tightened, not relaxed
C26_Witness ==
    /\ det.step = "done"
    /\ "a" \in CommonFields
    /\ OldSpec("a").min = Some(IntV(0)) /\ OldSpec("a").max = Some(IntV(1))
    /\ NewSpec("a").min = Some(IntV(1)) /\ NewSpec("a").max = None
    /\ Breaking("CONSTRAINT_TIGHTENED", "a") = 1
    /\ NonBreaking("CONSTRAINT_RELAXED", "a") = 0

\* C27: a field of both schemas whose pattern differs gets exactly one
\* pattern change: the breaking PATTERN_STRICTER when the old pattern is
\* absent, or both are set and the new one is strictly longer; the
\* non-breaking PATTERN_RELAXED when the new pattern is absent, or both are
\* set and the new one is not longer.
C27_PatternChange ==
    det.step = "done" =>
        \A f \in CommonFields :
            LET old_pattern == OldSpec(f).pattern
                new_pattern == NewSpec(f).pattern
                stricter == Breaking("PATTERN_STRICTER", f)
                relaxed == NonBreaking("PATTERN_RELAXED", f)
            IN  IF old_pattern = new_pattern THEN stricter = 0 /\ relaxed = 0
                ELSE IF IsNone(old_pattern) THEN stricter = 1 /\ relaxed = 0
                ELSE IF IsNone(new_pattern) THEN stricter = 0 /\ relaxed = 1
                ELSE IF Len(Get(new_pattern)) > Len(Get(old_pattern))
                     THEN stricter = 1 /\ relaxed = 0
                ELSE stricter = 0 /\ relaxed = 1

\* C28: for a field of both schemas, the breaking TYPE_CHANGED is recorded
\* exactly when the types differ, the breaking FORMAT_CHANGED exactly when
\* the formats differ (a format set or dropped included), the breaking
\* FIELD_MADE_REQUIRED exactly when required goes from false to true and the
\* non-breaking FIELD_MADE_OPTIONAL exactly when it goes from true to false.
C28_TypeFormatRequired ==
    det.step = "done" =>
        \A f \in CommonFields :
            /\ Breaking("TYPE_CHANGED", f) =
                   (IF OldSpec(f).type # NewSpec(f).type THEN 1 ELSE 0)
            /\ Breaking("FORMAT_CHANGED", f) =
                   (IF OldSpec(f).format # NewSpec(f).format THEN 1 ELSE 0)
            /\ Breaking("FIELD_MADE_REQUIRED", f) =
                   (IF ~OldSpec(f).required /\ NewSpec(f).required THEN 1 ELSE 0)
            /\ NonBreaking("FIELD_MADE_OPTIONAL", f) =
                   (IF OldSpec(f).required /\ ~NewSpec(f).required THEN 1 ELSE 0)
            /\ \A type \in {"TYPE_CHANGED", "FORMAT_CHANGED", "FIELD_MADE_REQUIRED"} :
                   NonBreaking(type, f) = 0
            /\ Breaking("FIELD_MADE_OPTIONAL", f) = 0

\* a format set on a field that had none, with type and required changed too
C28_Witness ==
    /\ det.step = "done"
    /\ "a" \in CommonFields
    /\ OldSpec("a") = At(ParseDoc(Dict([contract_version |-> "1.0",
                          schema |-> Fields(<<Entry("a", LooseSpec)>>)])).schema, "a")
    /\ NewSpec("a").type = "integer" /\ NewSpec("a").required
    /\ Breaking("TYPE_CHANGED", "a") = 1
    /\ Breaking("FORMAT_CHANGED", "a") = 1
    /\ Breaking("FIELD_MADE_REQUIRED", "a") = 1

\* the optional properties of declared field i whose value in the record is
\* null, as paths
NullOptionalProperties(i) ==
    LET field_name == val.validator.schema[i].name
        field_def == val.validator.schema[i].def
    IN  IF /\ field_def.type = "object"
           /\ ~IsNone(field_def.properties)
           /\ field_name \in Keys(val.data)
           /\ At(val.data, field_name).t = "dict"
        THEN {field_name \o "." \o Get(field_def.properties)[k].name :
                 k \in {p \in 1..Len(Get(field_def.properties)) :
                     LET prop == Get(field_def.properties)[p]
                     IN  /\ ~prop.def.required
                         /\ prop.name \in Keys(At(val.data, field_name).entries)
                         /\ At(At(val.data, field_name).entries, prop.name) = NoneV}}
        ELSE {}

\* C29: an optional field whose value in the record is null produces no
\* error, be it a top-level field or an optional property of an object.
C29_NullOptionalSkipped ==
    val.step = "done" =>
        \A i \in 1..Len(val.validator.schema) :
            LET field_name == val.validator.schema[i].name
                field_def == val.validator.schema[i].def
            IN  /\ (/\ ~field_def.required
                    /\ field_name \in Keys(val.data)
                    /\ At(val.data, field_name) = NoneV) =>
                       ErrorsOf(field_name) = <<>>
                /\ \A path \in NullOptionalProperties(i) : ErrorsOf(path) = <<>>

\* C30: validate on a schema the parser accepted ends by returning its list
\* of errors, whatever the record and whatever the types of the bounds.
C30_ValidateReturns == val.step # "TypeError"

=============================================================================
